---- MODULE Spec2Model ----
(***************************************************************************)
(* A model of two subsystems of the repository:                            *)
(*   - TsEvaluator<T> (Ts/evaluator.h): the per-segment eval-cache vector *)
(*     built by the constructor and the cache lookup done by Eval;         *)
(*   - Sdf_PathParser (Sdf/pathParser.h): the PEG grammar of SdfPath       *)
(*     strings, as functions from (input, cursor) to a match result.       *)
(* Spec is the evaluator with one caller, ConcSpec the evaluator with two   *)
(* concurrent callers, ParseSpec the path parser.                          *)
(***************************************************************************)
EXTENDS Integers, Sequences, FiniteSets, TLC

VARIABLES
    built,      \* "none" | "default" | "spline": which constructor has run
    _spline,    \* TsEvaluator::_spline, the knots in time order
    _segments,  \* TsEvaluator::_segments, the eval caches pushed by the constructor
    failed,     \* 0-based segment indices for which Ts_EvalCache<T>::New returned null
    calls,      \* per calling thread: the position and locals of its Eval call
    pathStr,    \* the string handed to Sdf_ParsePath
    parsed,     \* the outcome of Sdf_ParsePath on pathStr, or NotParsed
    registry,   \* the texts of the tokens interned so far, in the order of interning
    seen,       \* the parses of a process so far: input, outcome, path and tokens
    pc,         \* ApplyCollections: the statement that authors next
    collections,    \* the collections applied to `prim`, by name
    query,      \* the MembershipQuery computed, or NoQuery
    answer,     \* the path asked of the query and what it returned, or NoAnswer
    shaderDefsFile, \* DiscoverShaderNodes: its static path of shaderDefs.usda, or Unset
    stage,      \* the stage UsdStage::Open was asked for: whether it opened, its root prims
    dpc,        \* DiscoverShaderNodes: "idle" | "loop" | "done"
    shaderDef,  \* the root prim the loop is at (from 1)
    resultVec,  \* the vector `result` that DiscoverShaderNodes returns
    errors      \* the diagnostics the call has raised, in order

vars == <<built, _spline, _segments, failed, calls, pathStr, parsed, registry, seen,
          pc, collections, query, answer,
          shaderDefsFile, stage, dpc, shaderDef, resultVec, errors>>
discVars == <<shaderDefsFile, stage, dpc, shaderDef, resultVec, errors>>
collVars == <<pc, collections, query, answer>>
evalVars == <<built, _spline, _segments, failed, calls>>
parseVars == <<pathStr, parsed, registry, seen>>
tokenVars == <<registry, seen>>

(***************************************************************************)
(* Bounds of the model.                                                    *)
(***************************************************************************)
MaxTime == 4        \* knot times are drawn from 1..MaxTime
ConcMaxTime == 3    \* the same, for the evaluators that are called concurrently
MaxFailed == 1      \* how many Ts_EvalCache<T>::New calls may fail in one construction

(***************************************************************************)
(* Ts/types.h                                                              *)
(***************************************************************************)
TsInterpValueBlock == "TsInterpValueBlock"
TsInterpHeld == "TsInterpHeld"
TsInterpLinear == "TsInterpLinear"
TsInterpCurve == "TsInterpCurve"
TsInterpMode == {TsInterpValueBlock, TsInterpHeld, TsInterpLinear, TsInterpCurve}

TsSideLeft == "TsSideLeft"
TsSideRight == "TsSideRight"
TsSide == {TsSideLeft, TsSideRight}

\* TsTraits<T>::zero
TsTraitsZero == <<"zero">>

\* The times a knot may sit at, and the times Eval is asked about: one step of
\* extrapolation before the first possible knot and one after the last.
KnotTimes(maxTime) == 1..maxTime
TsTime(maxTime) == 0..(maxTime + 1)

(***************************************************************************)
(* The spline (TsSpline / TsKnotMap): knots keyed and ordered by time.     *)
(***************************************************************************)
RECURSIVE SortedTimes(_)
SortedTimes(S) ==
    IF S = {} THEN <<>>
    ELSE LET m == CHOOSE x \in S : \A y \in S : x <= y
         IN  <<m>> \o SortedTimes(S \ {m})

\* TsKnotMap built from a set of times and the knots' next-interpolation modes.
KnotMap(S, interp) ==
    LET ts == SortedTimes(S)
    IN  [i \in 1..Len(ts) |-> [time |-> ts[i], nextInterp |-> interp[ts[i]]]]

Splines(maxTime) ==
    {KnotMap(S, interp) : <<S, interp>> \in
        UNION {{<<S, f>> : f \in [S -> TsInterpMode]} : S \in SUBSET KnotTimes(maxTime)}}

\* TsSpline::IsEmpty
IsEmpty(spline) == Len(spline) = 0

\* The segment a direct evaluation at `time` lies in: the number of knots at or
\* before `time` (0 before the first knot, n at or after the last).
RECURSIVE KnotsAtOrBefore(_, _)
KnotsAtOrBefore(knots, time) ==
    IF knots = <<>> \/ Head(knots).time > time THEN 0
    ELSE 1 + KnotsAtOrBefore(Tail(knots), time)

\* The value a segment of two adjacent knots takes at `time`.
SegmentValue(k1, k2, time) == <<"segment", k1.time, k2.time, time>>

\* TsSpline::Eval(time, &result): [ok, value]. It fails on an empty spline and
\* inside a value-blocked segment.
SplineEval(spline, time) ==
    LET n == Len(spline)
        k == KnotsAtOrBefore(spline, time)
    IN  IF n = 0 THEN [ok |-> FALSE, value |-> <<"unset">>]
        ELSE IF k = 0 THEN [ok |-> TRUE, value |-> <<"preExtrap", time>>]
        ELSE IF k = n THEN
            IF spline[n].time = time
            THEN [ok |-> TRUE, value |-> <<"knot", time>>]
            ELSE [ok |-> TRUE, value |-> <<"postExtrap", time>>]
        ELSE IF spline[k].nextInterp = TsInterpValueBlock
            THEN [ok |-> FALSE, value |-> <<"unset">>]
        ELSE [ok |-> TRUE, value |-> SegmentValue(spline[k], spline[k + 1], time)]

(***************************************************************************)
(* Ts_EvalCache<T>                                                         *)
(***************************************************************************)
\* Ts_EvalCache<T>::New(kf1, kf2): the cache of the segment between two knots.
EvalCacheNew(kf1, kf2) == [kf1 |-> kf1, kf2 |-> kf2]

\* Ts_EvalCache<T>::TypedEval(time)
TypedEval(cache, time) == SegmentValue(cache.kf1, cache.kf2, time)

(***************************************************************************)
(* TsEvaluator<T>: construction                                            *)
(***************************************************************************)
\* HasBezier looking only at the knots that start a segment between two knots.
HasBezier_InterKnotOnly(knots) ==
    \E i \in 1..(Len(knots) - 1) : knots[i].nextInterp = TsInterpCurve

\* The scan of the constructor: some knot has curve as its next interpolation.
HasBezier(knots) == \E i \in 1..Len(knots) : knots[i].nextInterp = TsInterpCurve

\* The constructor's loop over the adjacent knot pairs, from pair `i` (0-based)
\* on: a cache that was created is pushed back, a null one is skipped.
RECURSIVE PushSegments(_, _, _)
PushSegments(knots, i, nulls) ==
    IF i + 2 > Len(knots) THEN <<>>
    ELSE (IF i \in nulls THEN <<>>
          ELSE <<EvalCacheNew(knots[i + 1], knots[i + 2])>>)
         \o PushSegments(knots, i + 1, nulls)

\* ConstructSegments without the scan for a Bezier segment.
ConstructSegments_NoBezierScan(spline, nulls) ==
    IF Len(spline) > 1 THEN PushSegments(spline, 0, nulls) ELSE <<>>

\* _segments as the constructor leaves it for `spline`, when Ts_EvalCache<T>::New
\* returns null for the pairs in `nulls`.
ConstructSegments(spline, nulls) ==
    IF Len(spline) > 1 /\ HasBezier(spline)
    THEN PushSegments(spline, 0, nulls)
    ELSE <<>>

\* The pairs for which the constructor calls Ts_EvalCache<T>::New at all.
PairsCreated(spline) ==
    IF Len(spline) > 1 /\ HasBezier(spline) THEN 0..(Len(spline) - 2) ELSE {}

IdleCall ==
    [pc |-> "idle", time |-> 0, side |-> TsSideRight, idx |-> -1,
     verify |-> {}, read |-> -1, result |-> <<"none">>]

\* The threads that call Eval on the one evaluator. Spec has a single caller;
\* ConcSpec lets both call at once.
MainThread == "t1"
Threads == {MainThread, "t2"}

\* TsEvaluator<T>::TsEvaluator()
DefaultConstruct ==
    /\ built = "none"
    /\ built' = "default"
    /\ _spline' = <<>>
    /\ _segments' = <<>>
    /\ UNCHANGED <<failed, calls, parseVars, collVars, discVars>>

\* TsEvaluator<T>::TsEvaluator(TsSpline spline)
Construct(spline, nulls) ==
    /\ built = "none"
    /\ built' = "spline"
    /\ _spline' = spline
    /\ failed' = nulls
    /\ _segments' = ConstructSegments(spline, nulls)
    /\ UNCHANGED <<calls, parseVars, collVars, discVars>>

(***************************************************************************)
(* TsEvaluator<T>::Eval                                                    *)
(***************************************************************************)
\* TsKnotMap::lower_bound(time): the 0-based offset of the first knot whose time
\* is not before `time`; Len(knots) is knots.end().
RECURSIVE LowerBound(_, _)
LowerBound(knots, time) ==
    IF knots = <<>> \/ Head(knots).time >= time THEN 0
    ELSE 1 + LowerBound(Tail(knots), time)

\* CacheLookup without the decrement for a sample after the requested time.
CacheLookup_NoDecrement(segments, spline, time, side) ==
    LET miss == [hit |-> FALSE, idx |-> -1, verify |-> {}]
        n == Len(spline)
        sample == LowerBound(spline, time)
    IN  IF segments # <<>> /\ side = TsSideRight /\ n # 0
           /\ time >= spline[1].time /\ time <= spline[n].time
           /\ sample # n /\ sample < Len(segments)
        THEN [hit |-> TRUE, idx |-> sample, verify |-> {}]
        ELSE miss

\* CacheLookup without the test of the side.
CacheLookup_AnySide(segments, spline, time, side) ==
    LET miss == [hit |-> FALSE, idx |-> -1, verify |-> {}]
        n == Len(spline)
        sample == LowerBound(spline, time)
        idx == IF sample # n /\ spline[sample + 1].time > time /\ sample > 0
               THEN sample - 1 ELSE sample
    IN  IF segments # <<>> /\ n # 0
           /\ time >= spline[1].time /\ time <= spline[n].time
           /\ sample # n /\ idx < Len(segments)
        THEN [hit |-> TRUE, idx |-> idx, verify |-> {}]
        ELSE miss

\* The cache lookup of Eval: whether a cache entry is used, its index, and the
\* TF_VERIFYs that failed on the way.
CacheLookup(segments, spline, time, side) ==
    LET miss(v) == [hit |-> FALSE, idx |-> -1, verify |-> v]
        knots == spline
        n == Len(knots)
    IN  IF ~(segments # <<>> /\ side = TsSideRight) THEN miss({})
        ELSE IF ~(n # 0 /\ time >= knots[1].time /\ time <= knots[n].time)
            THEN miss({})
        ELSE LET sample == LowerBound(knots, time)
             IN  IF sample = n THEN miss({"sample != knots.end()"})
                 ELSE LET after == knots[sample + 1].time > time
                          v1 == IF after /\ ~(sample > 0) THEN {"idx > 0"} ELSE {}
                          idx == IF after /\ sample > 0 THEN sample - 1 ELSE sample
                      IN  IF idx < Len(segments)
                          THEN [hit |-> TRUE, idx |-> idx, verify |-> v1]
                          ELSE miss(v1 \cup {"idx < _segments.size()"})

\* DirectEval returning `result` whether or not the spline could be evaluated.
DirectEval_Unchecked(spline, time) == SplineEval(spline, time).value

\* DirectEval reporting the failure of the spline's evaluation as an error.
DirectEval_ErrorOnFailure(spline, time) ==
    IF IsEmpty(spline) THEN TsTraitsZero
    ELSE IF SplineEval(spline, time).ok THEN SplineEval(spline, time).value
    ELSE <<"error">>

\* The direct evaluation at the end of Eval, with the fall back to zero.
DirectEval(spline, time) ==
    IF ~IsEmpty(spline) /\ SplineEval(spline, time).ok
    THEN SplineEval(spline, time).value
    ELSE TsTraitsZero

\* A thread calls Eval(time, side).
EvalCall(t, time, side) ==
    /\ built # "none"
    /\ calls[t].pc = "idle"
    /\ calls' = [calls EXCEPT ![t] = [IdleCall EXCEPT
                    !.pc = "lookup", !.time = time, !.side = side]]
    /\ UNCHANGED <<built, _spline, _segments, failed, parseVars, collVars, discVars>>

\* The cache lookup: the thread goes on to the cache entry or to the spline.
EvalLookup(t) ==
    /\ calls[t].pc = "lookup"
    /\ LET r == CacheLookup(_segments, _spline, calls[t].time, calls[t].side)
       IN  calls' = [calls EXCEPT ![t].pc = IF r.hit THEN "cached" ELSE "direct",
                                  ![t].idx = r.idx,
                                  ![t].verify = r.verify]
    /\ UNCHANGED <<built, _spline, _segments, failed, parseVars, collVars, discVars>>

\* EvalCached taking the entry it evaluates out of the vector.
EvalCached_Evicting(t) ==
    /\ calls[t].pc = "cached"
    /\ Len(_segments) > calls[t].idx
    /\ calls' = [calls EXCEPT
                    ![t].pc = "done",
                    ![t].read = calls[t].idx,
                    ![t].result = TypedEval(_segments[calls[t].idx + 1], calls[t].time)]
    /\ _segments' = SubSeq(_segments, 1, calls[t].idx)
    /\ UNCHANGED <<built, _spline, failed, parseVars, collVars, discVars>>

\* return _segments[idx]->TypedEval(time)
EvalCached(t) ==
    /\ calls[t].pc = "cached"
    /\ calls' = [calls EXCEPT
                    ![t].pc = "done",
                    ![t].read = calls[t].idx,
                    ![t].result = TypedEval(_segments[calls[t].idx + 1], calls[t].time)]
    /\ UNCHANGED <<built, _spline, _segments, failed, parseVars, collVars, discVars>>

\* No cache hit: evaluate directly on the spline, or fall back to zero.
EvalDirect(t) ==
    /\ calls[t].pc = "direct"
    /\ calls' = [calls EXCEPT
                    ![t].pc = "done",
                    ![t].result = DirectEval(_spline, calls[t].time)]
    /\ UNCHANGED <<built, _spline, _segments, failed, parseVars, collVars, discVars>>

\* The caller takes the result; the thread may call again.
EvalReturn(t) ==
    /\ calls[t].pc = "done"
    /\ calls' = [calls EXCEPT ![t] = IdleCall]
    /\ UNCHANGED <<built, _spline, _segments, failed, parseVars, collVars, discVars>>

(***************************************************************************)
(* Sdf_PathParser: the input and the match results                         *)
(*                                                                         *)
(* An input is a sequence of bytes. An ASCII byte is written as its        *)
(* character, any other byte as its two hexadecimal digits ("C3"). A       *)
(* cursor is the 1-based index of the next unread byte. A rule maps        *)
(* (input, cursor) to a match with the cursor after the matched span, to  *)
(* a local failure (the cursor is rewound to where the rule started), or   *)
(* to a global error (the parse_error a failed must<> throws).             *)
(***************************************************************************)
MaxLen == 4         \* every input over CoreBytes up to this length is parsed
MaxUtf8Len == 3     \* every input over Utf8Bytes up to this length is parsed
MaxVariantLen == 4  \* "/A" with every string over VariantBytes up to this length
MaxParses == 3      \* the parses of one process
MaxSelLen == 2      \* the bytes between the braces of the enumerated variant selections
MaxSuffixes == 2    \* how many suffixes are put after a relational attribute name

Matched(p) == [st |-> "match", pos |-> p]
Failure == [st |-> "fail", pos |-> 0]
GlobalError == [st |-> "error", pos |-> 0]

IsMatch(r) == r.st = "match"

EndOfInput == "eof"
ByteAt(in, p) == IF p >= 1 /\ p <= Len(in) THEN in[p] ELSE EndOfInput

LowerLetters == {"a", "b", "c", "d", "e", "f", "g", "h", "i", "j", "k", "l", "m", "n", "o", "p", "q", "r", "s", "t", "u", "v", "w", "x", "y", "z"}
UpperLetters == {"A", "B", "C", "D", "E", "F", "G", "H", "I", "J", "K", "L", "M", "N", "O", "P", "Q", "R", "S", "T", "U", "V", "W", "X", "Y", "Z"}
Digits == {"0", "1", "2", "3", "4", "5", "6", "7", "8", "9"}
AsciiLetters == LowerLetters \cup UpperLetters

\* PEGTL internal::peek_utf8::peek: [size, data], size 0 when the bytes at the
\* cursor are no valid UTF-8 sequence. The code points are the ASCII bytes and
\* the two-byte sequences C3 A9 (U+00E9) and C2 B7 (U+00B7).
Utf8LeadBytes == {"C2", "C3"}
Utf8ContinuationBytes == {"A9", "B7"}
PeekUtf8(in, p) ==
    LET b == ByteAt(in, p)
    IN  IF b = EndOfInput THEN [size |-> 0, data |-> <<>>]
        ELSE IF b \in Utf8LeadBytes
            THEN IF ByteAt(in, p + 1) \in Utf8ContinuationBytes
                 THEN [size |-> 2, data |-> <<b, ByteAt(in, p + 1)>>]
                 ELSE [size |-> 0, data |-> <<>>]
        ELSE IF b \in Utf8ContinuationBytes \cup {"FF"}
            THEN [size |-> 0, data |-> <<>>]
        ELSE [size |-> 1, data |-> <<b>>]

\* TfIsUtf8CodePointXidStart / TfIsUtf8CodePointXidContinue on those code points:
\* U+00E9 is XID_Start; U+00B7, the digits and '_' are XID_Continue only.
TfIsUtf8CodePointXidStart(cp) ==
    cp \in {<<c>> : c \in AsciiLetters} \cup {<<"C3", "A9">>}
TfIsUtf8CodePointXidContinue(cp) ==
    \/ TfIsUtf8CodePointXidStart(cp)
    \/ cp \in {<<c>> : c \in Digits \cup {"_"}} \cup {<<"C2", "B7">>}

\* struct XidStart
XidStart(in, p) ==
    IF p <= Len(in)
    THEN LET utf8_char == PeekUtf8(in, p)
         IN  IF utf8_char.size # 0 /\ TfIsUtf8CodePointXidStart(utf8_char.data)
             THEN Matched(p + utf8_char.size)
             ELSE Failure
    ELSE Failure

\* XidContinue taking a byte that is no UTF-8 sequence as a code point of one
\* byte that continues an identifier.
XidContinue_NoSizeCheck(in, p) ==
    IF p <= Len(in)
    THEN LET utf8_char == PeekUtf8(in, p)
         IN  IF utf8_char.size = 0 THEN Matched(p + 1)
             ELSE IF TfIsUtf8CodePointXidContinue(utf8_char.data)
             THEN Matched(p + utf8_char.size)
             ELSE Failure
    ELSE Failure

\* XidContinue without in.bump(): it reports the match and consumes nothing.
XidContinue_NoBump(in, p) ==
    IF p <= Len(in)
    THEN LET utf8_char == PeekUtf8(in, p)
         IN  IF utf8_char.size # 0 /\ TfIsUtf8CodePointXidContinue(utf8_char.data)
             THEN Matched(p)
             ELSE Failure
    ELSE Failure

\* struct XidContinue
XidContinue(in, p) ==
    IF p <= Len(in)
    THEN LET utf8_char == PeekUtf8(in, p)
         IN  IF utf8_char.size # 0 /\ TfIsUtf8CodePointXidContinue(utf8_char.data)
             THEN Matched(p + utf8_char.size)
             ELSE Failure
    ELSE Failure

\* PEGTL one<c...>: the byte at the cursor is one of `cs`.
One(in, p, cs) == IF ByteAt(in, p) \in cs THEN Matched(p + 1) ELSE Failure

\* The element of a one-element set. The combinators below take the result of
\* their first rule as the element of a one-element set, so that a rule is
\* matched once at a cursor however often its result is looked at.
The(S) == CHOOSE x \in S : TRUE

\* The cursors of an input: before each byte, and at the end.
Cursors(in) == 1..(Len(in) + 1)

\* PEGTL seq<A, B>: `a` is the result of A, B maps the cursor where A ended to
\* the result of B from there.
PegSeq(a, B) == The({IF IsMatch(x) THEN B[x.pos] ELSE x : x \in {a}})

\* PEGTL sor<A, B>: `a` is the result of A, `b` the result of B at the same
\* cursor. A global error of A is not caught.
PegSor(a, b) == The({IF x # Failure THEN x ELSE b : x \in {a}})

\* PEGTL opt<A> at cursor p: a local failure of A is a match of nothing.
PegOpt(a, p) == The({IF x = Failure THEN Matched(p) ELSE x : x \in {a}})

\* PEGTL must<A>: a local failure of A is thrown as a parse_error.
PegMust(a) == The({IF x = Failure THEN GlobalError ELSE x : x \in {a}})

\* PEGTL if_then_else<C, T, E>: `c` is the result of C, T maps the cursor where C
\* ended to the result of T, `e` is the result of E at the cursor C started from.
PegIfThenElse(c, T, e) ==
    The({IF IsMatch(x) THEN T[x.pos] ELSE IF x = GlobalError THEN x ELSE e : x \in {c}})

\* star<R> of a rule R that matches one character of a class: R as often as
\* it matches, which is at most once per byte of the input. `R` maps a cursor
\* to the result of the rule there; after[k, q] is the cursor that up to 2^k
\* matches from q lead to, so that a long run does not nest the evaluation
\* once per byte.
PegStar(in, R, p) ==
    LET rounds == CHOOSE k \in 0..Len(in) : 2^k > Len(in) /\ (k = 0 \/ 2^(k - 1) <= Len(in))
        after[k \in 0..rounds, q \in Cursors(in)] ==
            IF k = 0
            THEN The({IF IsMatch(x) THEN x.pos ELSE q : x \in {R[q]}})
            ELSE after[k - 1, after[k - 1, q]]
    IN  Matched(after[rounds, p])

\* PEGTL star<blank>
RECURSIVE StarBlank(_, _)
StarBlank(in, p) ==
    IF ByteAt(in, p) \in {" ", "\t"} THEN StarBlank(in, p + 1) ELSE p

\* PEGTL internal::pad<one<c>, blank>
PadOne(in, p, c) ==
    The({PegSeq(One(in, q, {c}), [e \in Cursors(in) |-> Matched(StarBlank(in, e))])
         : q \in {StarBlank(in, p)}})

Slash(in, p) == One(in, p, {"/"})
Dot(in, p) == One(in, p, {"."})
\* PEGTL two<'.'>
DotDot(in, p) ==
    IF ByteAt(in, p) = "." /\ ByteAt(in, p + 1) = "." THEN Matched(p + 2) ELSE Failure

AbsoluteRoot(in, p) == Slash(in, p)
ReflexiveRelative(in, p) == Dot(in, p)

\* star<Slash, DotDot>, the tail of list<DotDot, Slash>
RECURSIVE StarSlashDotDot(_, _)
StarSlashDotDot(in, p) ==
    PegOpt(PegSeq(PegSeq(Slash(in, p), [q \in Cursors(in) |-> DotDot(in, q)]),
                  [q \in Cursors(in) |-> StarSlashDotDot(in, q)]), p)

\* DotDots as a list that also takes a separator after its last item.
DotDots_TrailingSlash(in, p) ==
    PegSeq(PegSeq(DotDot(in, p), [q \in Cursors(in) |-> StarSlashDotDot(in, q)]),
           [q \in Cursors(in) |-> PegOpt(Slash(in, q), q)])

\* struct DotDots : list<DotDot, Slash>
DotDots(in, p) == PegSeq(DotDot(in, p), [q \in Cursors(in) |-> StarSlashDotDot(in, q)])

\* Utf8IdentifierStart without the alternative of the underscore.
Utf8IdentifierStart_XidStartOnly(in, p) == XidStart(in, p)

\* struct Utf8IdentifierStart : sor<one<'_'>, XidStart>
Utf8IdentifierStart(in, p) == PegSor(One(in, p, {"_"}), XidStart(in, p))

\* star<XidContinue>
StarXidContinue(in, p) == PegStar(in, [q \in Cursors(in) |-> XidContinue(in, q)], p)

\* struct Utf8Identifier : seq<Utf8IdentifierStart, star<XidContinue>>
Utf8Identifier(in, p) ==
    PegSeq(Utf8IdentifierStart(in, p), [q \in Cursors(in) |-> StarXidContinue(in, q)])

PrimName(in, p) == Utf8Identifier(in, p)

\* star<sor<XidContinue, one<'-'>>>
StarVariantSetChar(in, p) ==
    PegStar(in, [q \in Cursors(in) |-> PegSor(XidContinue(in, q), One(in, q, {"-"}))], p)

\* struct VariantSetName : seq<Utf8IdentifierStart, star<sor<XidContinue, one<'-'>>>>
VariantSetName(in, p) ==
    PegSeq(Utf8IdentifierStart(in, p), [q \in Cursors(in) |-> StarVariantSetChar(in, q)])

\* star<sor<XidContinue, one<'|', '-'>>>
StarVariantChar(in, p) ==
    PegStar(in, [q \in Cursors(in) |-> PegSor(XidContinue(in, q), One(in, q, {"|", "-"}))], p)

\* VariantName without the optional leading dot.
VariantName_NoLeadingDot(in, p) == StarVariantChar(in, p)

\* struct VariantName : seq<opt<one<'.'>>, star<sor<XidContinue, one<'|', '-'>>>>
VariantName(in, p) ==
    PegSeq(PegOpt(One(in, p, {"."}), p), [q \in Cursors(in) |-> StarVariantChar(in, q)])

VarSelOpen(in, p) == PadOne(in, p, "{")
VarSelClose(in, p) == PadOne(in, p, "}")

\* The rules of VariantSelection after VarSelOpen: VariantSetName,
\* pad<one<'='>, blank>, opt<VariantName>, VarSelClose
VariantSelectionRest(in, p) ==
    PegSeq(VariantSetName(in, p), [q \in Cursors(in) |->
    PegSeq(PadOne(in, q, "="), [r \in Cursors(in) |->
    PegSeq(PegOpt(VariantName(in, r), r), [s \in Cursors(in) |->
    VarSelClose(in, s)])])])

\* struct VariantSelection : if_must<false, VarSelOpen, VariantSetName,
\*     pad<one<'='>, blank>, opt<VariantName>, VarSelClose>
VariantSelection(in, p) ==
    PegSeq(VarSelOpen(in, p), [q \in Cursors(in) |-> PegMust(VariantSelectionRest(in, q))])

\* star<VariantSelection>
RECURSIVE StarVariantSelection(_, _)
StarVariantSelection(in, p) ==
    PegOpt(PegSeq(VariantSelection(in, p), [q \in Cursors(in) |-> StarVariantSelection(in, q)]), p)

\* struct VariantSelections : plus<VariantSelection>
VariantSelections(in, p) ==
    PegSeq(VariantSelection(in, p), [q \in Cursors(in) |-> StarVariantSelection(in, q)])

\* PrimSep as variant selections that a slash may follow.
PrimSep_VariantsThenSlash(in, p) ==
    PegSor(Slash(in, p),
           PegSeq(VariantSelections(in, p), [q \in Cursors(in) |-> PegOpt(Slash(in, q), q)]))

\* sor<Slash, VariantSelections>, the separator of the prim elements
PrimSep(in, p) == PegSor(Slash(in, p), VariantSelections(in, p))

\* star<at<Sep, Rule>, Sep, Rule> of LookaheadList<PrimName, sor<Slash,
\* VariantSelections>>: the lookahead at<Sep, Rule> matches without consuming,
\* then Sep and Rule are matched again and consumed.
RECURSIVE StarSepPrimName(_, _)
\* StarSepPrimName with no lookahead and no rewinding: when Rule fails after
\* Sep, the star ends where Sep ended.
StarSepPrimName_NoRewind(in, p) ==
    The({IF sep = Failure THEN Matched(p)
         ELSE IF sep = GlobalError THEN sep
         ELSE The({IF name = Failure THEN sep
                   ELSE IF name = GlobalError THEN name
                   ELSE StarSepPrimName(in, name.pos)
                   : name \in {PrimName(in, sep.pos)}})
         : sep \in {PrimSep(in, p)}})

StarSepPrimName(in, p) ==
    PegOpt(PegSeq(PegSeq(PrimSep(in, p), [q \in Cursors(in) |-> PrimName(in, q)]),
                  [q \in Cursors(in) |-> StarSepPrimName(in, q)]), p)

\* LookaheadList<PrimName, sor<Slash, VariantSelections>>
LookaheadList(in, p) ==
    PegSeq(PrimName(in, p), [q \in Cursors(in) |-> StarSepPrimName(in, q)])

\* PrimElts taking a slash that no prim name follows.
PrimElts_TrailingSlash(in, p) ==
    PegSeq(LookaheadList(in, p), [q \in Cursors(in) |->
           PegSeq(PegOpt(VariantSelections(in, q), q),
                  [r \in Cursors(in) |-> PegOpt(Slash(in, r), r)])])

\* struct PrimElts : seq<LookaheadList<...>, opt<VariantSelections>>
PrimElts(in, p) ==
    PegSeq(LookaheadList(in, p), [q \in Cursors(in) |-> PegOpt(VariantSelections(in, q), q)])

\* star<one<':'>, Utf8Identifier>, the tail of list<Utf8Identifier, one<':'>>
RECURSIVE StarColonIdentifier(_, _)
StarColonIdentifier(in, p) ==
    PegOpt(PegSeq(PegSeq(One(in, p, {":"}), [q \in Cursors(in) |-> Utf8Identifier(in, q)]),
                  [q \in Cursors(in) |-> StarColonIdentifier(in, q)]), p)

\* struct PropertyName : list<Utf8Identifier, one<':'>>
PropertyName(in, p) ==
    PegSeq(Utf8Identifier(in, p), [q \in Cursors(in) |-> StarColonIdentifier(in, q)])

RelationalAttributeName(in, p) == PropertyName(in, p)

TargetPathOpen(in, p) == One(in, p, {"["})
TargetPathClose(in, p) == One(in, p, {"]"})

\* PEGTL identifier_first / identifier_other (ASCII)
IdentifierFirst == AsciiLetters \cup {"_"}
IdentifierOther == AsciiLetters \cup Digits \cup {"_"}

\* PEGTL string<c...>: the bytes at the cursor are exactly `word`.
RECURSIVE StringAt(_, _, _)
StringAt(in, p, word) ==
    IF word = <<>> THEN Matched(p)
    ELSE IF ByteAt(in, p) = Head(word) THEN StringAt(in, p + 1, Tail(word))
    ELSE Failure

\* PEGTL istring<c...>: the bytes at the cursor are `word` in any case.
ToLower ==
    [A |-> "a", B |-> "b", C |-> "c", D |-> "d", E |-> "e", F |-> "f", G |-> "g",
     H |-> "h", I |-> "i", J |-> "j", K |-> "k", L |-> "l", M |-> "m", N |-> "n",
     O |-> "o", P |-> "p", Q |-> "q", R |-> "r", S |-> "s", T |-> "t", U |-> "u",
     V |-> "v", W |-> "w", X |-> "x", Y |-> "y", Z |-> "z"]
ByteToLower(c) == IF c \in DOMAIN ToLower THEN ToLower[c] ELSE c

RECURSIVE IStringAt(_, _, _)
IStringAt(in, p, word) ==
    IF word = <<>> THEN Matched(p)
    ELSE IF ByteToLower(ByteAt(in, p)) = Head(word) THEN IStringAt(in, p + 1, Tail(word))
    ELSE Failure

\* PXR_PEGTL_KEYWORD(word): seq<string<word>, not_at<identifier_other>>
Keyword(in, p, word) ==
    PegSeq(StringAt(in, p, word), [q \in Cursors(in) |->
           IF ByteAt(in, q) \notin IdentifierOther THEN Matched(q) ELSE Failure])

\* MapperKW matching the letters of "mapper" in any case.
MapperKW_IgnoreCase(in, p) ==
    PegSeq(IStringAt(in, p, <<"m", "a", "p", "p", "e", "r">>), [q \in Cursors(in) |->
           IF ByteAt(in, q) \notin IdentifierOther THEN Matched(q) ELSE Failure])

MapperKW(in, p) == Keyword(in, p, <<"m", "a", "p", "p", "e", "r">>)
Expression(in, p) == Keyword(in, p, <<"e", "x", "p", "r", "e", "s", "s", "i", "o", "n">>)

\* star<identifier_other>
RECURSIVE StarIdentifierOther(_, _)
StarIdentifierOther(in, p) ==
    IF ByteAt(in, p) \in IdentifierOther THEN StarIdentifierOther(in, p + 1) ELSE p

\* struct MapperArg : PEGTL identifier
MapperArg(in, p) ==
    IF ByteAt(in, p) \in IdentifierFirst
    THEN Matched(StarIdentifierOther(in, p + 1))
    ELSE Failure

RECURSIVE Path(_, _)

\* BracketPath as a plain seq<>: a local failure where the must<> throws.
BracketPath_Seq(in, p) ==
    PegSeq(TargetPathOpen(in, p), [q \in Cursors(in) |->
           PegSeq(Path(in, q), [r \in Cursors(in) |-> TargetPathClose(in, r)])])

\* BracketPath<TargPath> : if_must<false, TargetPathOpen, TargPath, TargetPathClose>
\* TargetPath and MapperPath are both Path.
BracketPath(in, p) ==
    PegSeq(TargetPathOpen(in, p), [q \in Cursors(in) |->
           PegMust(PegSeq(Path(in, q), [r \in Cursors(in) |-> TargetPathClose(in, r)]))])

\* if_must<false, Dot, Expression>
DotExpression(in, p) ==
    PegSeq(Dot(in, p), [q \in Cursors(in) |-> PegMust(Expression(in, q))])

\* The rules of MapperPathSeq after seq<Dot, MapperKW>: BracketPath<MapperPath>,
\* opt<Dot, MapperArg>
MapperPathRest(in, p) ==
    PegSeq(BracketPath(in, p), [q \in Cursors(in) |->
           PegOpt(PegSeq(Dot(in, q), [r \in Cursors(in) |-> MapperArg(in, r)]), q)])

\* struct MapperPathSeq : if_must<false, seq<Dot, MapperKW>,
\*     BracketPath<MapperPath>, opt<Dot, MapperArg>>
MapperPathSeq(in, p) ==
    PegSeq(PegSeq(Dot(in, p), [q \in Cursors(in) |-> MapperKW(in, q)]),
           [q \in Cursors(in) |-> PegMust(MapperPathRest(in, q))])

\* RelAttrSuffix taking a second suffix after the first.
RelAttrSuffix_Twice(in, p) ==
    PegSeq(PegOpt(PegSor(BracketPath(in, p),
                  PegSor(MapperPathSeq(in, p), DotExpression(in, p))), p),
           [q \in Cursors(in) |->
               PegOpt(PegSor(BracketPath(in, q),
                      PegSor(MapperPathSeq(in, q), DotExpression(in, q))), q)])

\* opt<sor<BracketPath<TargetPath>, MapperPathSeq, if_must<false, Dot, Expression>>>
RelAttrSuffix(in, p) ==
    PegOpt(PegSor(BracketPath(in, p),
           PegSor(MapperPathSeq(in, p), DotExpression(in, p))), p)

\* struct RelAttrSeq : if_must<false, one<'.'>, RelationalAttributeName, opt<...>>
RelAttrSeq(in, p) ==
    PegSeq(One(in, p, {"."}), [q \in Cursors(in) |->
           PegMust(PegSeq(RelationalAttributeName(in, q),
                          [r \in Cursors(in) |-> RelAttrSuffix(in, r)]))])

\* struct TargetPathSeq : seq<BracketPath<TargetPath>, opt<RelAttrSeq>>
TargetPathSeq(in, p) ==
    PegSeq(BracketPath(in, p), [q \in Cursors(in) |-> PegOpt(RelAttrSeq(in, q), q)])

\* opt<sor<TargetPathSeq, MapperPathSeq, if_must<false, Dot, Expression>>>
PropSuffix(in, p) ==
    PegOpt(PegSor(TargetPathSeq(in, p),
           PegSor(MapperPathSeq(in, p), DotExpression(in, p))), p)

\* struct PropElts : seq<one<'.'>, PropertyName, opt<sor<...>>>
PropElts(in, p) ==
    PegSeq(One(in, p, {"."}), [q \in Cursors(in) |->
           PegSeq(PropertyName(in, q), [r \in Cursors(in) |-> PropSuffix(in, r)])])

\* opt<PropElts>
OptPropElts(in, p) == PegOpt(PropElts(in, p), p)

\* PathElts with seq in the place of if_then_else: no PropElts without PrimElts.
PathElts_PrimFirst(in, p) ==
    PegSeq(PrimElts(in, p), [q \in Cursors(in) |-> OptPropElts(in, q)])

\* struct PathElts : if_then_else<PrimElts, opt<PropElts>, PropElts>
PathElts(in, p) ==
    PegIfThenElse(PrimElts(in, p), [q \in Cursors(in) |-> OptPropElts(in, q)], PropElts(in, p))

\* struct PrimFirstPathElts : seq<PrimElts, opt<PropElts>>
PrimFirstPathElts(in, p) ==
    PegSeq(PrimElts(in, p), [q \in Cursors(in) |-> OptPropElts(in, q)])

\* AbsolutePath with PathElts after the root: a property may follow at once.
AbsolutePath_PathElts(in, p) ==
    PegSeq(AbsoluteRoot(in, p), [q \in Cursors(in) |-> PegOpt(PathElts(in, q), q)])

\* seq<AbsoluteRoot, opt<PrimFirstPathElts>>
AbsolutePath(in, p) ==
    PegSeq(AbsoluteRoot(in, p), [q \in Cursors(in) |-> PegOpt(PrimFirstPathElts(in, q), q)])

\* seq<DotDots, opt<seq<Slash, PathElts>>>
DotDotsPath(in, p) ==
    PegSeq(DotDots(in, p), [q \in Cursors(in) |->
           PegOpt(PegSeq(Slash(in, q), [r \in Cursors(in) |-> PathElts(in, r)]), q)])

\* struct Path : sor<seq<AbsoluteRoot, ...>, seq<DotDots, ...>, PathElts,
\*     ReflexiveRelative>
Path(in, p) ==
    PegSor(AbsolutePath(in, p),
    PegSor(DotDotsPath(in, p),
    PegSor(PathElts(in, p), ReflexiveRelative(in, p))))

(***************************************************************************)
(* Sdf_PathParser: the actions                                             *)
(*                                                                         *)
(* Action<Rule>::apply is called with the matched span whenever Rule has   *)
(* matched with actions enabled, also inside a sequence that fails later;  *)
(* at<> matches its rules with actions disabled. A path is the sequence of *)
(* elements the actions append to it. For each rule with actions below it, *)
(* the operator RuleEv gives the elements appended while the rule is tried *)
(* at a cursor.                                                            *)
(***************************************************************************)
\* GetToken: constexpr int BufSz
BufSz == 32

\* The byte '\0'.
NulByte == "00"

\* The C string in a buffer that holds a NUL: the bytes before the first NUL.
CString(buf) ==
    LET nul == CHOOSE i \in 1..Len(buf) :
                   buf[i] = NulByte /\ \A j \in 1..(i - 1) : buf[j] # NulByte
    IN  SubSeq(buf, 1, nul - 1)

\* GetToken without the test of the length: the copy is cut to fit the buffer.
GetToken_AlwaysBuffer(span) ==
    CString([i \in 1..(IF Len(span) < BufSz THEN Len(span) ELSE BufSz - 1) |-> span[i]]
            \o <<NulByte>>)

\* GetToken(in): the token of a matched span. A token is identified by its
\* text. A span shorter than BufSz is copied into the buffer, null-terminated
\* and read back as a C string; a longer one is taken as a string.
GetToken(span) ==
    IF Len(span) < BufSz THEN CString(span \o <<NulByte>>) ELSE span

\* The elements of buf (counted from 0) that GetToken writes: the copy of the
\* span and the '\0' behind it when the span is shorter than BufSz, none when
\* it takes the string.
GetTokenWrites(span) ==
    IF Len(span) < BufSz THEN 0..Len(span) ELSE {}

\* The bytes of the input from cursor b up to the cursor e.
Span(in, b, e) == SubSeq(in, b, e - 1)

\* A path element: "root", "parent", "reflexive", "prim" (a: its name),
\* "variant" (a: the variant set, b: the variant), "prop" (a: its name), or
\* "suffix" (a: the text of what follows a property name).
Elt(kind, a, b) == <<kind, a, b>>

\* The element an action appends when its rule has matched.
Fire(r, elt) == IF IsMatch(r) THEN <<elt>> ELSE <<>>

\* The elements of seq<A, B>: `a` is the result of A and `ea` its elements, EB
\* maps the cursor where A ended to the elements of B from there.
EvSeq(a, ea, EB) == The({ea \o (IF IsMatch(x) THEN EB[x.pos] ELSE <<>>) : x \in {a}})

\* The elements of sor<A, B>: those of A, then those of B when A failed.
EvSor(a, ea, eb) == The({ea \o (IF x = Failure THEN eb ELSE <<>>) : x \in {a}})

DotDotEv(in, p) == Fire(DotDot(in, p), Elt("parent", <<>>, <<>>))

RECURSIVE StarSlashDotDotEv(_, _)
StarSlashDotDotEv(in, p) ==
    The({IF IsMatch(x)
         THEN EvSeq(Slash(in, p), <<>>, [q \in Cursors(in) |->
              EvSeq(DotDot(in, q), DotDotEv(in, q), [r \in Cursors(in) |->
              StarSlashDotDotEv(in, r)])])
         ELSE <<>>
         : x \in {PegSeq(Slash(in, p), [q \in Cursors(in) |-> DotDot(in, q)])}})

\* DotDotsEv where only the first DotDot appends a parent step.
DotDotsEv_FirstOnly(in, p) == DotDotEv(in, p)

DotDotsEv(in, p) ==
    EvSeq(DotDot(in, p), DotDotEv(in, p), [q \in Cursors(in) |-> StarSlashDotDotEv(in, q)])

PrimNameEv(in, p) ==
    The({Fire(x, Elt("prim", GetToken(Span(in, p, x.pos)), <<>>)) : x \in {PrimName(in, p)}})

\* VariantSetName and VariantName store their spans in the context
\* (PPContext::varSetName, varName); VariantSelection appends the selection.
VariantSelectionEv(in, p) ==
    The({The({The({The({
        Fire(VarSelClose(in, name.pos),
             Elt("variant", Span(in, open.pos, set.pos), Span(in, eq.pos, name.pos)))
        : name \in {PegSeq(eq, [q \in Cursors(in) |-> VariantName(in, q)])}})
        : eq \in {PegSeq(set, [q \in Cursors(in) |-> PadOne(in, q, "=")])}})
        : set \in {PegSeq(open, [q \in Cursors(in) |-> VariantSetName(in, q)])}})
        : open \in {VarSelOpen(in, p)}})

\* plus<VariantSelection>, and star<VariantSelection> after the first
RECURSIVE VariantSelectionsEv(_, _)
VariantSelectionsEv(in, p) ==
    EvSeq(VariantSelection(in, p), VariantSelectionEv(in, p),
          [q \in Cursors(in) |-> VariantSelectionsEv(in, q)])

PrimSepEv(in, p) ==
    EvSor(Slash(in, p), <<>>, VariantSelectionsEv(in, p))

\* One round of the star: Sep, Rule.
RECURSIVE StarSepPrimNameEv(_, _)
SepPrimNameEv(in, p) ==
    EvSeq(PrimSep(in, p), PrimSepEv(in, p), [q \in Cursors(in) |->
    EvSeq(PrimName(in, q), PrimNameEv(in, q), [r \in Cursors(in) |->
    StarSepPrimNameEv(in, r)])])

\* StarSepPrimNameEv with no at<Sep, Rule> in front of Sep, Rule.
StarSepPrimNameEv_NoLookahead(in, p) == SepPrimNameEv(in, p)

\* star<at<Sep, Rule>, Sep, Rule>: the lookahead appends nothing.
StarSepPrimNameEv(in, p) ==
    The({IF IsMatch(x) THEN SepPrimNameEv(in, p) ELSE <<>>
         : x \in {PegSeq(PrimSep(in, p), [q \in Cursors(in) |-> PrimName(in, q)])}})

LookaheadListEv(in, p) ==
    EvSeq(PrimName(in, p), PrimNameEv(in, p), [q \in Cursors(in) |-> StarSepPrimNameEv(in, q)])

PrimEltsEv(in, p) ==
    EvSeq(LookaheadList(in, p), LookaheadListEv(in, p),
          [q \in Cursors(in) |-> VariantSelectionsEv(in, q)])

\* What follows the property name, kept as its text.
PropSuffixEv(in, p) ==
    The({IF IsMatch(x) /\ x.pos > p THEN <<Elt("suffix", Span(in, p, x.pos), <<>>)>> ELSE <<>>
         : x \in {PropSuffix(in, p)}})

PropEltsEv(in, p) ==
    EvSeq(One(in, p, {"."}), <<>>, [q \in Cursors(in) |->
    The({EvSeq(x, Fire(x, Elt("prop", GetToken(Span(in, q, x.pos)), <<>>)),
               [r \in Cursors(in) |-> PropSuffixEv(in, r)])
         : x \in {PropertyName(in, q)}})])

PathEltsEv(in, p) ==
    The({PrimEltsEv(in, p)
         \o (IF IsMatch(x) THEN PropEltsEv(in, x.pos)
             ELSE IF x = Failure THEN PropEltsEv(in, p)
             ELSE <<>>)
         : x \in {PrimElts(in, p)}})

PrimFirstPathEltsEv(in, p) ==
    EvSeq(PrimElts(in, p), PrimEltsEv(in, p), [q \in Cursors(in) |-> PropEltsEv(in, q)])

AbsolutePathEv(in, p) ==
    EvSeq(AbsoluteRoot(in, p), Fire(AbsoluteRoot(in, p), Elt("root", <<>>, <<>>)),
          [q \in Cursors(in) |-> PrimFirstPathEltsEv(in, q)])

DotDotsPathEv(in, p) ==
    EvSeq(DotDots(in, p), DotDotsEv(in, p), [q \in Cursors(in) |->
    EvSeq(Slash(in, q), <<>>, [r \in Cursors(in) |-> PathEltsEv(in, r)])])

PathEv(in, p) ==
    EvSor(AbsolutePath(in, p), AbsolutePathEv(in, p),
    EvSor(DotDotsPath(in, p), DotDotsPathEv(in, p),
    EvSor(PathElts(in, p), PathEltsEv(in, p),
          Fire(ReflexiveRelative(in, p), Elt("reflexive", <<>>, <<>>)))))

(***************************************************************************)
(* Sdf_ParsePath                                                           *)
(***************************************************************************)
\* Sdf_ParsePath(pathStr, &path, &errMsg): the Path production from the start of
\* the input, which must match and leave no input over. `match` is the result of
\* the Path production, `ok` what Sdf_ParsePath returns, `path` the path the
\* actions have assembled when it returns true.
ParsePathResult(in) ==
    The({[ok |-> IsMatch(m) /\ m.pos = Len(in) + 1,
          match |-> m,
          path |-> IF IsMatch(m) /\ m.pos = Len(in) + 1 THEN PathEv(in, 1) ELSE <<>>]
         : m \in {Path(in, 1)}})

NotParsed == [ok |-> FALSE, match |-> [st |-> "none", pos |-> 0], path |-> <<>>]

Sdf_ParsePath ==
    /\ parsed = NotParsed
    /\ parsed' = ParsePathResult(pathStr)
    /\ UNCHANGED <<pathStr, evalVars, tokenVars, collVars, discVars>>

(***************************************************************************)
(* The text of a path                                                      *)
(***************************************************************************)
\* The text of a path with a "/" in front of every prim name but the first.
RenderPath_SlashBeforeEveryName(path) ==
    LET upto[n \in 0..Len(path)] ==
            IF n = 0 THEN <<>>
            ELSE upto[n - 1] \o
                 (IF path[n][1] = "root" THEN <<"/">>
                  ELSE IF path[n][1] = "prim"
                  THEN (IF n > 1 /\ path[n - 1][1] # "root" THEN <<"/">> ELSE <<>>)
                       \o path[n][2]
                  ELSE <<"{">> \o path[n][2] \o <<"=">> \o path[n][3] \o <<"}">>)
    IN  upto[Len(path)]

\* The text of a path of the root, prim names and variant selections: "/",
\* the names with "/" between one name and the next, a selection as
\* {set=sel} with no blanks, and a name right after a selection.
RenderPath(path) ==
    LET upto[n \in 0..Len(path)] ==
            IF n = 0 THEN <<>>
            ELSE upto[n - 1] \o
                 (IF path[n][1] = "root" THEN <<"/">>
                  ELSE IF path[n][1] = "prim"
                  THEN (IF n > 1 /\ path[n - 1][1] = "prim" THEN <<"/">> ELSE <<>>)
                       \o path[n][2]
                  ELSE <<"{">> \o path[n][2] \o <<"=">> \o path[n][3] \o <<"}">>)
    IN  upto[Len(path)]

(***************************************************************************)
(* Interning the names of a parsed path                                    *)
(***************************************************************************)
\* TfToken(text) with every text its own token: nothing is looked up.
TfToken_NoLookup(reg, text) == [reg |-> Append(reg, text), tok |-> Len(reg) + 1]

\* TfToken(text) against the registry reg: the token of a text that has been
\* interned is the one it was given then, a new text is given a new token. A
\* token is the position of its text in the registry.
TfToken(reg, text) ==
    IF \E i \in 1..Len(reg) : reg[i] = text
    THEN [reg |-> reg, tok |-> CHOOSE i \in 1..Len(reg) : reg[i] = text]
    ELSE [reg |-> Append(reg, text), tok |-> Len(reg) + 1]

\* The registry and the tokens after the names of the first n elements of a
\* path have been made tokens in their order; an element that has no name has
\* the token 0.
InternPath(reg, path) ==
    LET upto[n \in 0..Len(path)] ==
            IF n = 0 THEN [reg |-> reg, toks |-> <<>>]
            ELSE IF path[n][1] \in {"prim", "prop"}
            THEN The({[reg |-> t.reg, toks |-> Append(upto[n - 1].toks, t.tok)]
                      : t \in {TfToken(upto[n - 1].reg, path[n][2])}})
            ELSE [reg |-> upto[n - 1].reg, toks |-> Append(upto[n - 1].toks, 0)]
    IN  upto[Len(path)]

\* Sdf_ParsePath(in, ...) in a process that has parsed before.
ParseAndIntern(in) ==
    /\ Len(seen) < MaxParses
    /\ \E result \in {ParsePathResult(in)} :
       \E interned \in {InternPath(registry, result.path)} :
          /\ pathStr' = in
          /\ parsed' = result
          /\ registry' = interned.reg
          /\ seen' = Append(seen, [input |-> in, ok |-> result.ok,
                                   path |-> result.path, toks |-> interned.toks])
    /\ UNCHANGED <<evalVars, collVars, discVars>>

\* The bytes of the exhaustively enumerated inputs: those of the path syntax,
\* and those of identifiers (the two bytes of U+00E9, and FF, which no UTF-8
\* sequence holds).
CoreBytes == {"/", ".", "a", "[", "]"}
Utf8Bytes == {"/", "_", "a", "9", "C3", "A9", "FF"}

RECURSIVE StringsUpTo(_, _)
StringsUpTo(bytes, n) ==
    IF n = 0 THEN {<<>>}
    ELSE LET shorter == StringsUpTo(bytes, n - 1)
         IN  shorter \cup {Append(s, b) : s \in shorter, b \in bytes}

\* The example inputs of the path syntax.
ExWorldGeomPoints == <<"/", "W", "o", "r", "l", "d", "/", "G", "e", "o", "m", ".", "p", "o", "i", "n", "t", "s">>
ExSibling == <<".", ".", "/", "S", "i", "b", "l", "i", "n", "g">>
ExReflexive == <<".">>
ExVariantChildTargetMapper == <<"/", "A", "{", "v", "a", "r", "=", "s", "e", "l", "}", "/", "B", ".", "r", "e", "l", "[", "/", "T", "a", "r", "g", "e", "t", "]", ".", "m", "a", "p", "p", "e", "r", "[", "/", "M", "]", ".", "a", "r", "g">>
ExVariantChildNoSlash == <<"/", "A", "{", "v", "a", "r", "=", "s", "e", "l", "}", "B", ".", "r", "e", "l", "[", "/", "T", "a", "r", "g", "e", "t", "]", ".", "a", "t", "t", "r", ".", "m", "a", "p", "p", "e", "r", "[", "/", "M", "]", ".", "a", "r", "g">>
ExUnterminatedTarget == <<"/", "A", ".", "r", "e", "l", "[">>
ExDotDotSlash == <<".", ".", "/">>
ExVariantChildNoAttr == <<"/", "A", "{", "v", "a", "r", "=", "s", "e", "l", "}", "B", ".", "r", "e", "l", "[", "/", "T", "a", "r", "g", "e", "t", "]", ".", "m", "a", "p", "p", "e", "r", "[", "/", "M", "]", ".", "a", "r", "g">>
ExExpressionBracket == <<"/", "A", ".", "x", ".", "e", "x", "p", "r", "e", "s", "s", "i", "o", "n", "[">>
ExLongIdentifier == <<"/">> \o [i \in 1..(BufSz + 1) |-> "a"]
ExVariantLodHigh == <<"/", "A", "{", "l", "o", "d", "=", "h", "i", "g", "h", "}">>
ExVariantLodEmpty == <<"/", "A", "{", "l", "o", "d", "=", "}">>
ExParentParentFoo == <<".", ".", "/", ".", ".", "/", "f", "o", "o">>
ExParentsFooProp == <<".", ".", "/", ".", ".", "/", ".", ".", "/", "f", "o", "o", ".", "x">>
ExDotAttr == <<".", "a", "t", "t", "r">>
ExMalformedTarget == <<"/", "a", ".", "b", "[", "a", "FF", "]">>
ExUtf8Identifier == <<"/", "_", "C3", "A9", "9">>
ExVariantPadded == <<"/", "A", "{", " ", "v", " ", "=", " ", "s", " ", "}", "B">>
ExRootDotAttr == <<"/", ".", "a", "t", "t", "r">>
ExParentDotAttr == <<".", ".", "/", ".", "a", "t", "t", "r">>
ExVariantHyphenPipe == <<"/", "A", " ", "{", "v", "-", "9", " ", "=", ".", "v", "|", "-", "}">>
ExVariantInnerBlank == <<"/", "A", "{", "v", "=", "a", " ", "b", "}">>
ExVariantInnerDot == <<"/", "A", "{", "v", "=", "a", ".", "b", "}">>
ExNestedTargets == <<"/", "A", ".", "r", "[", "/", "B", ".", "s", "[", "/", "C", "]", ".", "t", "]", ".", "u", "[", "/", "D", "]">>
ExIdentifierBelowBufSz == <<"/">> \o [i \in 1..(BufSz - 1) |-> "a"]
ExIdentifierOfBufSz == <<"/">> \o [i \in 1..BufSz |-> "a"]
ExEmbeddedNul == <<"/", "a", NulByte, "b">>
ExSlashThenVariant == <<"/", "A", "/", "{", "v", "=", "a", "}", "B">>
ExVariantsRun == <<"/", "A", "{", "v", "=", "a", "}", "{", "w", "=", "b", "}", " ", "B", "/", "C", "{", "x", "=", "c", "}", "{", "y", "=", "}">>
ExampleInputs ==
    {ExWorldGeomPoints, ExSibling, ExReflexive, ExVariantChildTargetMapper,
     ExVariantChildNoSlash, ExVariantChildNoAttr, ExUnterminatedTarget,
     ExDotDotSlash, ExExpressionBracket, ExLongIdentifier, ExVariantLodHigh,
     ExVariantLodEmpty, ExParentParentFoo, ExParentsFooProp, ExDotAttr,
     ExMalformedTarget, ExUtf8Identifier, ExVariantPadded, ExSlashThenVariant,
     ExVariantsRun, ExRootDotAttr, ExParentDotAttr, ExVariantHyphenPipe,
     ExVariantInnerBlank, ExVariantInnerDot, ExNestedTargets, ExIdentifierBelowBufSz,
     ExIdentifierOfBufSz, ExEmbeddedNul}

\* Inputs that have names in common.
InternInputs ==
    {<<"/", "a">>, <<"/", "a", "/", "b">>, <<"b", ".", "a">>, <<"/", "b", "/">>,
     <<".", ".", "/", "b", "b">>, <<"/", "b", "b", "{", "a", "=", "b", "}", "a">>}

\* A prim name with what can make up its variant selections after it.
VariantBytes == {"{", "v", "=", "}", " "}
VariantInputs == {<<"/", "A">> \o s : s \in StringsUpTo(VariantBytes, MaxVariantLen)}

\* The keywords in upper and lower case, where the grammar looks for them:
\* `.mapper[...]` after a property name and after a relational attribute name
\* in every mix of the two cases, `.expression` after a property name with any
\* one letter, none or all of them in upper case.
KwMapper == <<"m", "a", "p", "p", "e", "r">>
KwExpression == <<"e", "x", "p", "r", "e", "s", "s", "i", "o", "n">>
ToUpper == [c \in LowerLetters |-> CHOOSE u \in DOMAIN ToLower : ToLower[u] = c]
UpperAt(word, up) == [i \in 1..Len(word) |-> IF i \in up THEN ToUpper[word[i]] ELSE word[i]]
CaseVariants(word) == {UpperAt(word, up) : up \in SUBSET (1..Len(word))}
CaseChanges(word) ==
    {UpperAt(word, up) : up \in {{}, 1..Len(word)} \cup {{k} : k \in 1..Len(word)}}
KeywordInputs ==
    {<<".", "x", ".">> \o w : w \in CaseChanges(KwExpression)}
        \cup {<<".", "x", ".">> \o w \o <<"[", "/", "m", "]">> : w \in CaseVariants(KwMapper)}
        \cup {<<".", "r", "[", "/", "t", "]", ".", "a", ".">> \o w \o <<"[", "/", "m", "]">>
              : w \in CaseVariants(KwMapper)}

\* A relational attribute after a target path, `.r[/t].a`, with up to
\* MaxSuffixes of the suffixes the grammar knows after it; and the target path
\* `.r[/t]` with a `.` that no name follows.
RelTarget == <<".", "r", "[", "/", "t", "]">>
RelPrefix == RelTarget \o <<".", "a">>
SfxTarget == <<"[", "/", "u", "]">>
SfxMapper == <<".">> \o KwMapper \o <<"[", "/", "m", "]">>
SfxMapperArg == SfxMapper \o <<".", "g">>
SfxExpression == <<".">> \o KwExpression
Suffixes == {SfxTarget, SfxMapper, SfxMapperArg, SfxExpression}
SuffixSeqs == UNION {[1..k -> Suffixes] : k \in 0..MaxSuffixes}
RECURSIVE Flatten(_)
Flatten(ss) == IF ss = <<>> THEN <<>> ELSE Head(ss) \o Flatten(Tail(ss))
DotJunk == {<<".">>, <<".", ".">>, <<".", "/">>, <<".", "[">>, <<".", "]">>, <<".", "9">>}
RelAttrInputs ==
    {RelPrefix \o Flatten(ss) : ss \in SuffixSeqs}
        \cup {RelTarget \o j : j \in DotJunk}
        \cup {RelPrefix \o <<".", "x">>, RelPrefix \o <<".", "x", "[", "/", "u", "]">>}

\* "/A{" text "}" for every text up to MaxSelLen over what the names of a
\* variant selection are made of and what they are not.
SelectionBytes == {"v", "9", "-", "|", ".", " ", "="}
SelectionInputs ==
    {<<"/", "A", "{">> \o s \o <<"}">> : s \in StringsUpTo(SelectionBytes, MaxSelLen)}

Inputs ==
    StringsUpTo(CoreBytes, MaxLen) \cup StringsUpTo(Utf8Bytes, MaxUtf8Len)
        \cup VariantInputs \cup KeywordInputs \cup RelAttrInputs \cup SelectionInputs
        \cup ExampleInputs

(***************************************************************************)
(* UsdCollectionAPI: ApplyCollections                                      *)
(***************************************************************************)
FourWheelers == <<"Vehicles", "FourWheelers">>
TwoWheelers == <<"Vehicles", "TwoWheelers">>
Other == <<"Vehicles", "Other">>
BicycleA == Append(TwoWheelers, "BicycleA")
TricycleA == Append(Other, "TricycleA")

\* The prim hierarchy ApplyCollections assumes.
StagePaths ==
    {<<"Vehicles">>, FourWheelers, TwoWheelers, Other, BicycleA, TricycleA}
    \cup {Append(FourWheelers, n) : n \in {"CarA", "CarB", "CarC", "CarD", "TruckA", "TruckB"}}
    \cup {Append(TwoWheelers, n) : n \in {"BikeA", "BikeB"}}
    \cup {Append(BicycleA, n) : n \in {"FrontWheel", "BackWheel"}}
    \cup {Append(TricycleA, n) : n \in {"FrontWheel", "BackWheels"}}

CollectionNames == {"cars", "bikes", "slowVehicles", "vehicles"}

\* GetCollectionPath(): the path of a collection of `prim`.
CollectionPath(name) == <<".", name>>
IsPathToACollection(target) == target[1] = "."

Apply(name) == [op |-> "Apply", coll |-> name, arg |-> <<>>]
CreateExpansionRuleAttr(name, rule) ==
    [op |-> "CreateExpansionRuleAttr", coll |-> name, arg |-> <<rule>>]
AddInclude(name, target) == [op |-> "AddInclude", coll |-> name, arg |-> target]
AddExclude(name, target) == [op |-> "AddExclude", coll |-> name, arg |-> target]

\* ApplyCollections with slowVehicles left at the default expansion rule.
ApplyCollectionsStmts_SlowVehiclesDefault ==
    <<Apply("cars"),
      AddInclude("cars", FourWheelers),
      AddExclude("cars", Append(FourWheelers, "TruckA")),
      AddExclude("cars", Append(FourWheelers, "TruckB")),
      Apply("bikes"),
      CreateExpansionRuleAttr("bikes", "explicitOnly"),
      AddInclude("bikes", Append(TwoWheelers, "BikeA")),
      AddInclude("bikes", Append(TwoWheelers, "BikeB")),
      Apply("slowVehicles"),
      CreateExpansionRuleAttr("slowVehicles", "expandPrims"),
      AddInclude("slowVehicles", BicycleA),
      AddInclude("slowVehicles", TricycleA),
      Apply("vehicles"),
      AddInclude("vehicles", CollectionPath("cars")),
      AddInclude("vehicles", CollectionPath("bikes")),
      AddInclude("vehicles", CollectionPath("slowVehicles")),
      AddInclude("vehicles", Append(FourWheelers, "TruckA")),
      AddInclude("vehicles", Append(FourWheelers, "TruckB"))>>

\* The statements of ApplyCollections that author the four collections.
ApplyCollectionsStmts ==
    <<Apply("cars"),
      AddInclude("cars", FourWheelers),
      AddExclude("cars", Append(FourWheelers, "TruckA")),
      AddExclude("cars", Append(FourWheelers, "TruckB")),
      Apply("bikes"),
      CreateExpansionRuleAttr("bikes", "explicitOnly"),
      AddInclude("bikes", Append(TwoWheelers, "BikeA")),
      AddInclude("bikes", Append(TwoWheelers, "BikeB")),
      Apply("slowVehicles"),
      CreateExpansionRuleAttr("slowVehicles", "explicitOnly"),
      AddInclude("slowVehicles", BicycleA),
      AddInclude("slowVehicles", TricycleA),
      Apply("vehicles"),
      AddInclude("vehicles", CollectionPath("cars")),
      AddInclude("vehicles", CollectionPath("bikes")),
      AddInclude("vehicles", CollectionPath("slowVehicles")),
      AddInclude("vehicles", Append(FourWheelers, "TruckA")),
      AddInclude("vehicles", Append(FourWheelers, "TruckB"))>>

NoQuery == [of |-> "none", map |-> <<>>]
NoAnswer == [path |-> <<>>, included |-> FALSE]

CollInit ==
    /\ pc = 1
    /\ collections = <<>>
    /\ query = NoQuery
    /\ answer = NoAnswer

\* UsdCollectionAPI::Apply: a collection with no targets and the default
\* expansion rule, expandPrims.
NewCollection == [expansionRule |-> "expandPrims", includes |-> <<>>, excludes |-> <<>>]

\* The collections after a statement.
Authored(colls, stmt) ==
    IF stmt.op = "Apply"
    THEN [c \in DOMAIN colls \cup {stmt.coll} |->
             IF c = stmt.coll THEN NewCollection ELSE colls[c]]
    ELSE IF stmt.op = "CreateExpansionRuleAttr"
    THEN [colls EXCEPT ![stmt.coll].expansionRule = stmt.arg[1]]
    ELSE IF stmt.op = "AddInclude"
    THEN [colls EXCEPT ![stmt.coll].includes = Append(@, stmt.arg)]
    ELSE [colls EXCEPT ![stmt.coll].excludes = Append(@, stmt.arg)]

\* The next statement of ApplyCollections.
Author ==
    /\ pc <= Len(ApplyCollectionsStmts)
    /\ query = NoQuery
    /\ collections' = Authored(collections, ApplyCollectionsStmts[pc])
    /\ pc' = pc + 1
    /\ UNCHANGED <<query, answer, evalVars, parseVars, discVars>>

\* The map from paths to expansion rules of the collection c: its includes in
\* their order, a path with the rule of c and a collection with its own map,
\* a later entry replacing an earlier one of the same path; then its excludes.
RECURSIVE MembershipMap(_, _, _)
MembershipMap(colls, c, depth) ==
    LET coll == colls[c]
        inc[n \in 0..Len(coll.includes)] ==
            IF n = 0 THEN <<>>
            ELSE IF IsPathToACollection(coll.includes[n])
            THEN (IF coll.includes[n][2] \in DOMAIN colls /\ depth > 0
                  THEN The({[x \in DOMAIN inc[n - 1] \cup DOMAIN m |->
                                IF x \in DOMAIN m THEN m[x] ELSE inc[n - 1][x]]
                            : m \in {MembershipMap(colls, coll.includes[n][2], depth - 1)}})
                  ELSE inc[n - 1])
            ELSE [x \in DOMAIN inc[n - 1] \cup {coll.includes[n]} |->
                     IF x = coll.includes[n] THEN coll.expansionRule ELSE inc[n - 1][x]]
        exc[n \in 0..Len(coll.excludes)] ==
            IF n = 0 THEN inc[Len(coll.includes)]
            ELSE [x \in DOMAIN exc[n - 1] \cup {coll.excludes[n]} |->
                     IF x = coll.excludes[n] THEN "exclude" ELSE exc[n - 1][x]]
    IN  exc[Len(coll.excludes)]

\* UsdCollectionAPI::ComputeMembershipQuery of the collection c
ComputeMembershipQuery(c) ==
    /\ c \in DOMAIN collections
    /\ query = NoQuery
    /\ query' = [of |-> c,
                 map |-> MembershipMap(collections, c, Cardinality(CollectionNames))]
    /\ UNCHANGED <<pc, collections, answer, evalVars, parseVars, discVars>>

\* MembershipQuery::IsPathIncluded: a path with an entry is included unless
\* the entry excludes it; a path with none follows its nearest ancestor that
\* has one, and is included when that one expands to its descendants.
IsPathIncluded(map, path) ==
    IF path \in DOMAIN map THEN map[path] # "exclude"
    ELSE LET ancestors == {n \in 1..(Len(path) - 1) : SubSeq(path, 1, n) \in DOMAIN map}
         IN  /\ ancestors # {}
             /\ map[SubSeq(path, 1, CHOOSE n \in ancestors : \A m \in ancestors : m <= n)]
                    = "expandPrims"

\* query.IsPathIncluded(path)
IsPathIncludedCall(path) ==
    /\ query # NoQuery
    /\ answer = NoAnswer
    /\ answer' = [path |-> path, included |-> IsPathIncluded(query.map, path)]
    /\ UNCHANGED <<pc, collections, query, evalVars, parseVars, discVars>>

(***************************************************************************)
(* UsdShadersDiscoveryPlugin::DiscoverShaderNodes                          *)
(***************************************************************************)
MaxPrims == 3       \* how many root prims the shader definitions stage may have
MaxResults == 1     \* how many discovery results one shader definition may have

Unset == "unset"
ShaderDefsPath == "shaders/shaderDefs.usda"

\* A root prim: whether UsdShadeShader(prim) is valid, and how many results
\* UsdShadeShaderDefUtils::GetDiscoveryResults finds in it.
RootPrims == [isShader : BOOLEAN, nResults : 0..MaxResults]

\* What UsdStage::Open may come back with: no stage, or one with its root prims.
NoStage == [open |-> FALSE, rootPrims |-> <<>>]
Stages ==
    {NoStage} \cup {[open |-> TRUE, rootPrims |-> ps]
                    : ps \in UNION {[1..n -> RootPrims] : n \in 0..MaxPrims}}

\* The diagnostics.
VerifyFailed == [what |-> "TF_VERIFY(!path.empty())", shaderDef |-> 0]
CouldNotOpen == [what |-> "Could not open file on a USD stage", shaderDef |-> 0]
NoDiscoveryResults(i) == [what |-> "no valid discovery results", shaderDef |-> i]

\* _GetShaderResourcePath(resourceName), when PlugFindPluginResource has found
\* the resource or has not.
GetShaderResourcePath(found) ==
    [path |-> IF found THEN ShaderDefsPath ELSE "",
     verify |-> IF found THEN <<>> ELSE <<VerifyFailed>>]

\* UsdShadeShaderDefUtils::GetDiscoveryResults(shader, shaderDefsFile) for the
\* i-th root prim.
GetDiscoveryResults(i, prim, file) ==
    [n \in 1..prim.nResults |-> [shaderDef |-> i, n |-> n, uri |-> file]]

\* ShaderDefResults without `if (!shader) continue`.
ShaderDefResults_NoShaderTest(i, prim, file) == GetDiscoveryResults(i, prim, file)

\* What one round of the loop pushes back for the i-th root prim.
ShaderDefResults(i, prim, file) ==
    IF ~prim.isShader THEN <<>> ELSE GetDiscoveryResults(i, prim, file)

\* The runtime error one round of the loop raises for the i-th root prim.
ShaderDefErrors(i, prim) ==
    IF prim.isShader /\ prim.nResults = 0 THEN <<NoDiscoveryResults(i)>> ELSE <<>>

DiscInit ==
    /\ shaderDefsFile = Unset
    /\ stage = NoStage
    /\ dpc = "idle"
    /\ shaderDef = 1
    /\ resultVec = <<>>
    /\ errors = <<>>

\* DiscoverShaderNodes(context) up to its loop: the static path is looked up by
\* the first call only; `found` is what PlugFindPluginResource does then and
\* `opened` what UsdStage::Open comes back with.
DiscoverShaderNodes(found, opened) ==
    /\ dpc \in {"idle", "done"}
    /\ \E res \in {IF shaderDefsFile = Unset
                   THEN GetShaderResourcePath(found)
                   ELSE [path |-> shaderDefsFile, verify |-> <<>>]} :
        /\ shaderDefsFile' = res.path
        /\ resultVec' = <<>>
        /\ shaderDef' = 1
        /\ IF res.path = ""
           THEN /\ stage' = NoStage
                /\ errors' = res.verify
                /\ dpc' = "done"
           ELSE /\ stage' = opened
                /\ errors' = res.verify \o (IF opened.open THEN <<>> ELSE <<CouldNotOpen>>)
                /\ dpc' = IF opened.open THEN "loop" ELSE "done"
    /\ UNCHANGED <<evalVars, parseVars, collVars>>

\* One round of `for (const auto &shaderDef : rootPrims)`.
DiscoverPrim ==
    /\ dpc = "loop"
    /\ shaderDef <= Len(stage.rootPrims)
    /\ resultVec' = resultVec
          \o ShaderDefResults(shaderDef, stage.rootPrims[shaderDef], shaderDefsFile)
    /\ errors' = errors \o ShaderDefErrors(shaderDef, stage.rootPrims[shaderDef])
    /\ shaderDef' = shaderDef + 1
    /\ UNCHANGED <<shaderDefsFile, stage, dpc, evalVars, parseVars, collVars>>

\* return result
DiscoverReturn ==
    /\ dpc = "loop"
    /\ shaderDef > Len(stage.rootPrims)
    /\ dpc' = "done"
    /\ UNCHANGED <<shaderDefsFile, stage, shaderDef, resultVec, errors,
                   evalVars, parseVars, collVars>>

(***************************************************************************)
(* The specifications                                                      *)
(***************************************************************************)
EvalInit ==
    /\ built = "none"
    /\ _spline = <<>>
    /\ _segments = <<>>
    /\ failed = {}
    /\ calls = [t \in Threads |-> IdleCall]

TokenInit ==
    /\ registry = <<>>
    /\ seen = <<>>

Init ==
    /\ EvalInit
    /\ pathStr = <<>>
    /\ parsed = NotParsed
    /\ TokenInit
    /\ CollInit
    /\ DiscInit

NullSets(spline) ==
    {N \in SUBSET PairsCreated(spline) : Cardinality(N) <= MaxFailed}

\* One caller: every construction, and Eval from a single thread.
Next ==
    \/ DefaultConstruct
    \/ /\ built = "none"
       /\ \E spline \in Splines(MaxTime) : \E nulls \in NullSets(spline) :
            Construct(spline, nulls)
    \/ \E time \in TsTime(MaxTime) : \E side \in TsSide : EvalCall(MainThread, time, side)
    \/ EvalLookup(MainThread)
    \/ EvalCached(MainThread)
    \/ EvalDirect(MainThread)
    \/ EvalReturn(MainThread)

Spec == Init /\ [][Next]_vars

\* Concurrent callers of one evaluator whose caches were all created.
ConcNext ==
    \/ DefaultConstruct
    \/ /\ built = "none"
       /\ \E spline \in Splines(ConcMaxTime) : Construct(spline, {})
    \/ \E t \in Threads : \E time \in TsTime(ConcMaxTime) : \E side \in TsSide :
            EvalCall(t, time, side)
    \/ \E t \in Threads : EvalLookup(t)
    \/ \E t \in Threads : EvalCached(t)
    \/ \E t \in Threads : EvalDirect(t)
    \/ \E t \in Threads : EvalReturn(t)

ConcSpec == Init /\ [][ConcNext]_vars

\* The path parser: Sdf_ParsePath applied to each input.
ParseInit ==
    /\ EvalInit
    /\ pathStr \in Inputs
    /\ parsed = NotParsed
    /\ TokenInit
    /\ CollInit
    /\ DiscInit

ParseNext == Sdf_ParsePath

ParseSpec == ParseInit /\ [][ParseNext]_vars

\* ApplyCollections up to any of its statements, then the membership query of
\* one of the collections applied so far, asked about a path of the stage.
CollNext ==
    \/ Author
    \/ \E c \in CollectionNames : ComputeMembershipQuery(c)
    \/ \E path \in StagePaths : IsPathIncludedCall(path)

CollSpec == Init /\ [][CollNext]_vars

\* One process that parses one string after another; the tokens of the names
\* are interned in the registry all its parses share.
InternNext == \E in \in InternInputs : ParseAndIntern(in)

InternSpec == Init /\ [][InternNext]_vars

\* The plugin is asked to discover again and again; what the resource lookup
\* and UsdStage::Open come back with is up to the installation.
DiscNext ==
    \/ \E found \in BOOLEAN, opened \in Stages : DiscoverShaderNodes(found, opened)
    \/ DiscoverPrim
    \/ DiscoverReturn

DiscSpec == Init /\ [][DiscNext]_vars

(***************************************************************************)
(* Properties of TsEvaluator                                               *)
(***************************************************************************)
Returned(t) == calls[t].pc = "done"

\* `time` lies in the i-th gap between knots: knot[i].time <= time < knot[i+1].time
\* (i is 1-based here; the cache index of the gap is i - 1).
InGap(i, time) ==
    /\ i \in 1..(Len(_spline) - 1)
    /\ _spline[i].time <= time
    /\ time < _spline[i + 1].time

SomeCurveKnot == \E i \in 1..Len(_spline) : _spline[i].nextInterp = TsInterpCurve

AllCachesCreated ==
    built = "spline" /\ Len(_spline) >= 2 /\ SomeCurveKnot /\ failed = {}

InKnotRange(time) ==
    /\ Len(_spline) > 0
    /\ _spline[1].time <= time
    /\ time <= _spline[Len(_spline)].time

\* What Eval is to return when no cache entry is used: the spline's own
\* evaluation, or zero when there is none.
IsDirectResult(result, time) ==
    LET d == SplineEval(_spline, time)
    IN  IF d.ok THEN result = d.value ELSE result = TsTraitsZero

PartialCacheUsesOwnSegment ==
    \A t \in Threads : \A i \in 1..(Len(_spline) - 1) :
        (/\ Returned(t)
         /\ built = "spline"
         /\ Cardinality(failed) = 1
         /\ calls[t].side = TsSideRight
         /\ InGap(i, calls[t].time))
        => IF (i - 1) \in failed
           THEN calls[t].read = -1 /\ IsDirectResult(calls[t].result, calls[t].time)
           ELSE /\ calls[t].read # -1
                /\ _segments[calls[t].read + 1]
                       = EvalCacheNew(_spline[i], _spline[i + 1])

\* C3: a right-side Eval at exactly the first knot's time reads no index outside
\* _segments and returns what a direct evaluation of the spline returns there.
FirstKnotEvalMatchesDirect ==
    \A t \in Threads :
        (/\ Returned(t)
         /\ built = "spline"
         /\ Len(_spline) >= 1
         /\ calls[t].side = TsSideRight
         /\ calls[t].time = _spline[1].time)
        => /\ calls[t].read < Len(_segments)
           /\ SplineEval(_spline, calls[t].time).ok
                => calls[t].result = SplineEval(_spline, calls[t].time).value

\* C4: a cache entry is read only by a right-side Eval at a time within the
\* knots' range; a left-side Eval and an Eval before the first or after the last
\* knot read none and return the spline's direct evaluation.
CacheOnlyRightSideInRange ==
    \A t \in Threads :
        /\ (calls[t].pc = "cached" \/ (Returned(t) /\ calls[t].read # -1))
            => calls[t].side = TsSideRight /\ InKnotRange(calls[t].time)
        /\ (Returned(t)
            /\ (calls[t].side = TsSideLeft \/ ~InKnotRange(calls[t].time)))
            => /\ calls[t].read = -1
               /\ IsDirectResult(calls[t].result, calls[t].time)

\* A left-side Eval inside the knots of a cached spline has returned, and so has
\* (in another state) a right-side Eval outside them.
LeftSideEvalWitness ==
    \E t \in Threads :
        /\ Returned(t)
        /\ AllCachesCreated
        /\ calls[t].side = TsSideLeft
        /\ InGap(1, calls[t].time)
        /\ calls[t].result = SegmentValue(_spline[1], _spline[2], calls[t].time)

\* C5: an evaluator that was default-constructed, or built from a spline with
\* no knots, returns TsTraits<T>::zero for every time and both sides.
EmptySplineEvalsToZero ==
    \A t \in Threads :
        (Returned(t) /\ (built = "default" \/ Len(_spline) = 0))
        => calls[t].result = TsTraitsZero

\* A left-side Eval on a default-constructed evaluator has returned.
EmptySplineWitness ==
    \E t \in Threads :
        /\ Returned(t)
        /\ built = "default"
        /\ calls[t].side = TsSideLeft
        /\ calls[t].time > 0

EvalAlone(time, side) ==
    LET r == CacheLookup(_segments, _spline, time, side)
    IN  IF r.hit THEN TypedEval(_segments[r.idx + 1], time)
        ELSE DirectEval(_spline, time)

\* C7: no step of Eval changes _segments or _spline, and whatever the other
\* thread does meanwhile, a call returns the value it returns when run alone.
ConcurrentEvalReadOnly ==
    /\ [][built # "none" => UNCHANGED <<_segments, _spline>>]_vars
    /\ [](\A t \in Threads :
            Returned(t) => calls[t].result = EvalAlone(calls[t].time, calls[t].side))

\* Both threads are inside Eval on the same cache entry: one has returned its
\* value, the other is about to read the entry.
ConcurrentEvalWitness ==
    \E t, u \in Threads :
        /\ t # u
        /\ Returned(t)
        /\ calls[t].read # -1
        /\ calls[u].pc = "cached"
        /\ calls[u].idx = calls[t].read

(***************************************************************************)
(* Properties of the path parser                                           *)
(***************************************************************************)
HasParsed == parsed # NotParsed

\* The input is "..", "../..", ...: dot-dots joined by single slashes.
RECURSIVE IsDotDotChain(_)
IsDotDotChain(in) ==
    /\ Len(in) >= 2
    /\ in[1] = "." /\ in[2] = "."
    /\ \/ Len(in) = 2
       \/ Len(in) >= 3 /\ in[3] = "/" /\ IsDotDotChain(SubSeq(in, 4, Len(in)))

\* The input is a dot-dot chain with one more slash after it: "../", "../../".
IsDotDotChainSlash(in) ==
    /\ Len(in) >= 3
    /\ in[Len(in)] = "/"
    /\ IsDotDotChain(SubSeq(in, 1, Len(in) - 1))

\* C8 as stated: "../" is accepted by ParsePath, as the dot-dots alone.
DotDotSlashAccepted ==
    (HasParsed /\ pathStr = ExDotDotSlash) => parsed.ok

\* C8, amended: of a dot-dot chain followed by one more slash ("../") the Path
\* production matches the dot-dots and leaves the slash unread, so Sdf_ParsePath
\* fails; the chain with no slash after it ("..") is accepted in full.
DotDotSlashRejected ==
    HasParsed =>
        /\ IsDotDotChainSlash(pathStr) =>
            /\ parsed.match = Matched(Len(pathStr))
            /\ ~parsed.ok
        /\ IsDotDotChain(pathStr) =>
            /\ parsed.match = Matched(Len(pathStr) + 1)
            /\ parsed.ok

\* "../" has been parsed: ".." matched, the slash is left over.
DotDotSlashWitness ==
    /\ HasParsed
    /\ pathStr = ExDotDotSlash
    /\ parsed.match = Matched(3)
    /\ ~parsed.ok

\* The Path production matched the whole input.
AcceptedInFull == parsed.match = Matched(Len(pathStr) + 1)

\* C9 as stated: each of the four example inputs is accepted in full.
ExampleInputsAccepted ==
    (/\ HasParsed
     /\ pathStr \in {ExWorldGeomPoints, ExSibling, ExReflexive,
                     ExVariantChildTargetMapper})
    => AcceptedInFull

\* C9, amended: "/World/Geom.points", "../Sibling" and "." are accepted in full.
\* Of "/A{var=sel}/B.rel[/Target].mapper[/M].arg" the Path production matches
\* "/A{var=sel}" only: a slash does not separate prims after a variant
\* selection. With the slash dropped it matches up to "[/M]" and leaves ".arg":
\* "mapper" after a target path is a relational attribute name. The form
\* "/A{var=sel}B.rel[/Target].attr.mapper[/M].arg" is accepted in full.
ExampleInputsParse ==
    HasParsed =>
        /\ pathStr \in {ExWorldGeomPoints, ExSibling, ExReflexive} => AcceptedInFull
        /\ pathStr = ExVariantChildTargetMapper =>
            /\ ~AcceptedInFull
            /\ parsed.match = Matched(12)
        /\ pathStr = ExVariantChildNoAttr =>
            /\ ~AcceptedInFull
            /\ parsed.match = Matched(Len(ExVariantChildNoAttr) - 3)
        /\ pathStr = ExVariantChildNoSlash => AcceptedInFull

\* The fourth example has been parsed and the match stopped after "/A{var=sel}".
ExampleInputsWitness ==
    /\ HasParsed
    /\ pathStr = ExVariantChildTargetMapper
    /\ parsed.match = Matched(12)
    /\ pathStr[12] = "/"

\* The Path production comes to try PropElts at cursor p: at the start of the
\* input, after the prim elements, or after the dot-dots and their slash.
ReachesPropElts(in, p) ==
    \/ p = 1
    \/ PrimElts(in, 1) = Matched(p)
    \/ IsMatch(AbsoluteRoot(in, 1)) /\ PrimElts(in, 2) = Matched(p)
    \/ LET dd == DotDots(in, 1)
           s == Slash(in, dd.pos)
       IN  /\ IsMatch(dd)
           /\ IsMatch(s)
           /\ (s.pos = p \/ PrimElts(in, s.pos) = Matched(p))

\* A '.' at cursor p, a property name after it and a '[' right after the name.
BracketAfterPropertyName(in, p) ==
    /\ ByteAt(in, p) = "."
    /\ IsMatch(PropertyName(in, p + 1))
    /\ ByteAt(in, PropertyName(in, p + 1).pos) = "["

\* After the '[' at cursor k a target path matches and a ']' follows it.
TargetAndCloseFollow(in, k) ==
    LET targ == Path(in, k + 1)
    IN  IsMatch(targ) /\ ByteAt(in, targ.pos) = "]"

\* C10: where a '[' follows a property name, PropElts never fails locally and
\* never matches just the name; when the target path or the ']' is missing it
\* ends in the global error, and so does the whole parse, which Sdf_ParsePath
\* reports as failure ("/A.rel[" among them).
UnclosedBracketIsHardError ==
    HasParsed =>
        /\ \A p \in 1..Len(pathStr) :
            BracketAfterPropertyName(pathStr, p) =>
                LET k == PropertyName(pathStr, p + 1).pos
                    r == PropElts(pathStr, p)
                IN  /\ r # Failure
                    /\ r # Matched(k)
                    /\ ~TargetAndCloseFollow(pathStr, k) => r = GlobalError
                    /\ (ReachesPropElts(pathStr, p) /\ ~TargetAndCloseFollow(pathStr, k))
                        => parsed.match = GlobalError /\ ~parsed.ok
        /\ pathStr = ExUnterminatedTarget => parsed.match = GlobalError /\ ~parsed.ok

\* "/A.rel[" has been parsed and ended in the global error.
UnclosedBracketWitness ==
    /\ HasParsed
    /\ pathStr = ExUnterminatedTarget
    /\ BracketAfterPropertyName(pathStr, 3)
    /\ ReachesPropElts(pathStr, 3)
    /\ parsed.match = GlobalError
    /\ ~parsed.ok

(***************************************************************************)
(* Properties of the paths the parser yields                               *)
(***************************************************************************)
\* The code points of a byte string, in order; "malformed" where the bytes are
\* no UTF-8 sequence (the rest of the string is then left out).
CodePoints(s) ==
    LET from[p \in Cursors(s)] ==
            IF p > Len(s) THEN <<>>
            ELSE IF PeekUtf8(s, p).size = 0 THEN <<<<"malformed">>>>
            ELSE <<PeekUtf8(s, p).data>> \o from[p + PeekUtf8(s, p).size]
    IN  from[1]

\* s is a valid identifier: its first code point is '_' or XID_Start, every
\* following one is XID_Continue.
IsValidIdentifier(s) ==
    LET cps == CodePoints(s)
    IN  /\ Len(cps) >= 1
        /\ cps[1] = <<"_">> \/ TfIsUtf8CodePointXidStart(cps[1])
        /\ \A i \in 2..Len(cps) : TfIsUtf8CodePointXidContinue(cps[i])

RootElt == Elt("root", <<>>, <<>>)
ParentElt == Elt("parent", <<>>, <<>>)
PrimElt(name) == Elt("prim", name, <<>>)
PropElt(name) == Elt("prop", name, <<>>)
VariantElt(set, sel) == Elt("variant", set, sel)

\* C11: for every valid identifier s, Sdf_ParsePath of "/" followed by s
\* succeeds, the match takes the whole input, and the path is the root followed
\* by the one prim element named s.
SlashIdentifierIsOnePrim ==
    (/\ HasParsed
     /\ Len(pathStr) >= 2
     /\ pathStr[1] = "/"
     /\ IsValidIdentifier(Tail(pathStr)))
    => /\ parsed.ok
       /\ AcceptedInFull
       /\ parsed.path = <<RootElt, PrimElt(Tail(pathStr))>>

\* "/_" followed by U+00E9 and a digit has been parsed into the one prim of
\* that name.
SlashIdentifierWitness ==
    /\ HasParsed
    /\ pathStr = ExUtf8Identifier
    /\ IsValidIdentifier(Tail(pathStr))
    /\ parsed.ok
    /\ parsed.path = <<RootElt, PrimElt(<<"_", "C3", "A9", "9">>)>>

\* The cursor at which reading s code point by code point comes to bytes that
\* are no UTF-8 sequence; 0 when s is well-formed.
FirstMalformed(s) ==
    LET from[p \in Cursors(s)] ==
            IF p > Len(s) THEN 0
            ELSE IF PeekUtf8(s, p).size = 0 THEN p
            ELSE from[p + PeekUtf8(s, p).size]
    IN  from[1]

\* C12: where the bytes at a cursor are no UTF-8 sequence, XidStart and
\* XidContinue fail locally (nothing is consumed, nothing is thrown); a string
\* that holds such bytes is never matched past them, so Sdf_ParsePath fails and
\* yields no path.
MalformedUtf8IsSyntaxError ==
    HasParsed =>
        /\ \A p \in 1..Len(pathStr) :
            PeekUtf8(pathStr, p).size = 0 =>
                /\ XidStart(pathStr, p) = Failure
                /\ XidContinue(pathStr, p) = Failure
        /\ FirstMalformed(pathStr) # 0 =>
            /\ ~parsed.ok
            /\ parsed.path = <<>>
            /\ \/ parsed.match \in {Failure, GlobalError}
               \/ /\ IsMatch(parsed.match)
                  /\ parsed.match.pos <= FirstMalformed(pathStr)

\* "/a" followed by the byte FF has been parsed: "/a" matched, the parse failed.
MalformedUtf8Witness ==
    /\ HasParsed
    /\ pathStr = <<"/", "a", "FF">>
    /\ FirstMalformed(pathStr) = 3
    /\ XidContinue(pathStr, 3) = Failure
    /\ parsed.match = Matched(3)
    /\ ~parsed.ok

\* s is a variant set name: '_' or XID_Start, then XID_Continue or '-'.
IsVariantSetName(s) ==
    LET cps == CodePoints(s)
    IN  /\ Len(cps) >= 1
        /\ cps[1] = <<"_">> \/ TfIsUtf8CodePointXidStart(cps[1])
        /\ \A i \in 2..Len(cps) :
            TfIsUtf8CodePointXidContinue(cps[i]) \/ cps[i] = <<"-">>

\* s is a variant name, which may be empty: an optional '.', then
\* XID_Continue, '|' or '-'.
IsVariantName(s) ==
    LET cps == CodePoints(s)
    IN  \A i \in 1..Len(cps) :
            \/ TfIsUtf8CodePointXidContinue(cps[i])
            \/ cps[i] \in {<<"|">>, <<"-">>}
            \/ i = 1 /\ cps[i] = <<".">>

\* C13: "/" name "{" set "=" sel "}" with name an identifier, set a variant
\* set name and sel a variant name or nothing parses to the prim `name` with
\* exactly one variant selection of set and sel; the two examples
\* "/A{lod=high}" and "/A{lod=}" among them.
OneVariantSelection ==
    /\ HasParsed =>
        \A i, j \in 1..Len(pathStr) :
            LET name == SubSeq(pathStr, 2, i - 1)
                set == SubSeq(pathStr, i + 1, j - 1)
                sel == SubSeq(pathStr, j + 1, Len(pathStr) - 1)
            IN  (/\ i < j /\ j < Len(pathStr)
                 /\ pathStr[1] = "/" /\ pathStr[i] = "{" /\ pathStr[j] = "="
                 /\ pathStr[Len(pathStr)] = "}"
                 /\ IsValidIdentifier(name)
                 /\ IsVariantSetName(set)
                 /\ IsVariantName(sel))
                => /\ parsed.ok
                   /\ parsed.path = <<RootElt, PrimElt(name), VariantElt(set, sel)>>
    /\ (HasParsed /\ pathStr = ExVariantLodHigh) =>
        parsed.path = <<RootElt, PrimElt(<<"A">>),
                        VariantElt(<<"l", "o", "d">>, <<"h", "i", "g", "h">>)>>
    /\ (HasParsed /\ pathStr = ExVariantLodEmpty) =>
        parsed.path = <<RootElt, PrimElt(<<"A">>), VariantElt(<<"l", "o", "d">>, <<>>)>>

\* "/A{lod=}" has been parsed to a path whose one selection has an empty name.
OneVariantSelectionWitness ==
    /\ HasParsed
    /\ pathStr = ExVariantLodEmpty
    /\ parsed.ok
    /\ Len(parsed.path) = 3
    /\ parsed.path[3] = VariantElt(<<"l", "o", "d">>, <<>>)

\* k times "..", joined by single slashes.
DotDotChain(k) == [i \in 1..(3 * k - 1) |-> IF i % 3 = 0 THEN "/" ELSE "."]

\* s parsed by itself is a path that starts with a prim or a property element.
IsPathElements(s) ==
    /\ ParsePathResult(s).ok
    /\ ParsePathResult(s).path # <<>>
    /\ ParsePathResult(s).path[1][1] \in {"prim", "prop"}

\* C14: k >= 1 ".." joined by single slashes, then "/" and path elements, is
\* accepted as k parent steps followed by the elements those path elements
\* parse to by themselves; "../../foo" is two parent steps and the prim foo.
DotDotsThenElements ==
    /\ HasParsed =>
        \A k \in 1..Len(pathStr) :
            (/\ 3 * k < Len(pathStr)
             /\ SubSeq(pathStr, 1, 3 * k - 1) = DotDotChain(k)
             /\ pathStr[3 * k] = "/"
             /\ IsPathElements(SubSeq(pathStr, 3 * k + 1, Len(pathStr))))
            => /\ parsed.ok
               /\ parsed.path = [i \in 1..k |-> ParentElt]
                      \o ParsePathResult(SubSeq(pathStr, 3 * k + 1, Len(pathStr))).path
    /\ (HasParsed /\ pathStr = ExParentParentFoo) =>
        parsed.path = <<ParentElt, ParentElt, PrimElt(<<"f", "o", "o">>)>>

\* "../../../foo.x" has been parsed: three parent steps, then foo and .x
DotDotsThenElementsWitness ==
    /\ HasParsed
    /\ pathStr = ExParentsFooProp
    /\ IsPathElements(SubSeq(pathStr, 10, Len(pathStr)))
    /\ parsed.ok
    /\ parsed.path = <<ParentElt, ParentElt, ParentElt,
                       PrimElt(<<"f", "o", "o">>), PropElt(<<"x">>)>>

\* C15: "." followed by an identifier as property name is accepted as a path
\* of that one property and no prim: the absolute and the dot-dot alternative
\* and PrimElts fail at the start of the input, PathElts matches all of it, and
\* the parse does not stop after the "." of the reflexive path.
DotPropertyIsPropertyOnly ==
    (/\ HasParsed
     /\ Len(pathStr) >= 2
     /\ pathStr[1] = "."
     /\ IsValidIdentifier(Tail(pathStr)))
    => /\ AbsolutePath(pathStr, 1) = Failure
       /\ DotDotsPath(pathStr, 1) = Failure
       /\ PrimElts(pathStr, 1) = Failure
       /\ PathElts(pathStr, 1) = Matched(Len(pathStr) + 1)
       /\ parsed.match # Matched(2)
       /\ parsed.ok
       /\ parsed.path = <<PropElt(Tail(pathStr))>>

\* ".attr" has been parsed to the one property attr.
DotPropertyWitness ==
    /\ HasParsed
    /\ pathStr = ExDotAttr
    /\ PrimElts(pathStr, 1) = Failure
    /\ parsed.ok
    /\ parsed.path = <<PropElt(<<"a", "t", "t", "r">>)>>

\* The outcome r of a rule applied at cursor p: a match that ends at a cursor
\* from p on within the input, a local failure, or a global error.
IsRuleOutcome(r, in, p) ==
    \/ r \in {Failure, GlobalError}
    \/ IsMatch(r) /\ p <= r.pos /\ r.pos <= Len(in) + 1

\* The results at cursor p of the rules of the grammar.
RuleResults(in, p) ==
    {XidStart(in, p), XidContinue(in, p), DotDot(in, p), DotDots(in, p),
     Utf8Identifier(in, p), VariantSetName(in, p), VariantName(in, p),
     VariantSelection(in, p), VariantSelections(in, p), PrimSep(in, p),
     StarSepPrimName(in, p), LookaheadList(in, p), PrimElts(in, p),
     PropertyName(in, p), BracketPath(in, p), MapperPathSeq(in, p),
     RelAttrSeq(in, p), TargetPathSeq(in, p), PropElts(in, p), PathElts(in, p),
     PrimFirstPathElts(in, p), AbsolutePath(in, p), DotDotsPath(in, p),
     Path(in, p)}

SeenNames ==
    {[parse |-> i, text |-> seen[i].path[n][2], tok |-> seen[i].toks[n]] :
        <<i, n>> \in {<<i, n>> \in (1..Len(seen)) \X (1..(BufSz + 4)) :
                        /\ n <= Len(seen[i].path)
                        /\ seen[i].path[n][1] \in {"prim", "prop"}}}

IsAbsolutePrimPath(path) ==
    /\ Len(path) >= 1
    /\ path[1] = RootElt
    /\ \A n \in 2..Len(path) : path[n][1] \in {"prim", "variant"}

IsOrIsIncludedIn(c, q) ==
    \/ c = q
    \/ \E n \in 1..Len(collections[q].includes) :
           collections[q].includes[n] = CollectionPath(c)

\* C19: the query of a collection answers that a path is included and that a
\* descendant of it is not when the path is among the includes of an
\* explicitOnly collection that is the collection queried or one it includes;
\* of `vehicles`, which includes slowVehicles and has the default rule,
\* BicycleA and TricycleA are members and their wheels are not.
ExplicitOnlyHasNoDescendants ==
    /\ (query # NoQuery /\ answer # NoAnswer) =>
        \A c \in DOMAIN collections :
            (collections[c].expansionRule = "explicitOnly" /\ IsOrIsIncludedIn(c, query.of))
            => \A n \in 1..Len(collections[c].includes) :
                LET p == collections[c].includes[n]
                IN  /\ answer.path = p => answer.included
                    /\ (/\ Len(answer.path) > Len(p)
                        /\ SubSeq(answer.path, 1, Len(p)) = p) => ~answer.included
    /\ (pc > Len(ApplyCollectionsStmts) /\ query.of = "vehicles" /\ answer # NoAnswer) =>
        /\ collections["vehicles"].expansionRule = "expandPrims"
        /\ answer.path \in {BicycleA, TricycleA} => answer.included
        /\ answer.path \in {Append(BicycleA, "FrontWheel"), Append(TricycleA, "BackWheels")}
               => ~answer.included

\* After all of ApplyCollections the query of `vehicles` has been asked about
\* BicycleA/FrontWheel and has answered no, BicycleA being in its map.
ExplicitOnlyWitness ==
    /\ pc > Len(ApplyCollectionsStmts)
    /\ query.of = "vehicles"
    /\ BicycleA \in DOMAIN query.map
    /\ answer = [path |-> Append(BicycleA, "FrontWheel"), included |-> FALSE]

\* C20: with every segment cache created, a right-side Eval at a time from the
\* first knot's to the last knot's, both included, fails none of the TF_VERIFYs
\* of the cache lookup and returns the value of a cache entry.
InRangeEvalPassesVerification ==
    \A t \in Threads :
        (/\ Returned(t)
         /\ AllCachesCreated
         /\ calls[t].side = TsSideRight
         /\ InKnotRange(calls[t].time))
        => /\ calls[t].verify = {}
           /\ calls[t].read \in 0..(Len(_segments) - 1)
           /\ calls[t].result = TypedEval(_segments[calls[t].read + 1], calls[t].time)

\* Some segment between two adjacent knots of the stored spline is a curve.
SomeCurveSegment ==
    \E i \in 1..(Len(_spline) - 1) : _spline[i].nextInterp = TsInterpCurve

\* An Eval that has returned used no cache entry and gave the spline's value.
EvaluatedDirectly(t) ==
    Returned(t) => calls[t].read = -1 /\ IsDirectResult(calls[t].result, calls[t].time)

LowerCased(in) == [i \in 1..Len(in) |-> ByteToLower(in[i])]

RECURSIVE PrevNonBlank(_, _)
PrevNonBlank(in, i) ==
    IF i <= 1 THEN "none"
    ELSE IF in[i - 1] = " " THEN PrevNonBlank(in, i - 1)
    ELSE in[i - 1]

\* The cursors in b..(e - 1) at which a prim name follows the "}" of a run of
\* variant selections.
NamesAfterSelections(in, b, e) ==
    {i \in b..(e - 1) : /\ PrevNonBlank(in, i) = "}"
                        /\ in[i] \notin {"{", " "}
                        /\ IsMatch(PrimName(in, i))}

NumberOfPrims(elts) == Cardinality({k \in 1..Len(elts) : elts[k][1] = "prim"})

\* C23: wherever PrimElts matches, every slash it has consumed stands directly
\* after a prim name and directly before another one (so never next to a
\* variant selection, and never as the last byte); the prim names are the
\* first one, one per slash and one per run of variant selections that a name
\* follows; no variant selection is left unconsumed behind the match; and an
\* input that ends in a slash after a prim name is not accepted in full.
PrimNameSeparators ==
    HasParsed =>
        /\ \A p \in Cursors(pathStr) :
             \A r \in {PrimElts(pathStr, p)} :
               IsMatch(r) =>
                 /\ r.pos > p
                 /\ pathStr[r.pos - 1] # "/"
                 /\ \A i \in p..(r.pos - 1) :
                      pathStr[i] = "/" =>
                        /\ i > p
                        /\ pathStr[i - 1] \notin {"/", "}", " "}
                        /\ IsMatch(PrimName(pathStr, i + 1))
                        /\ PrimName(pathStr, i + 1).pos <= r.pos
                 /\ NumberOfPrims(PrimEltsEv(pathStr, p))
                      = 1 + Cardinality({i \in p..(r.pos - 1) : pathStr[i] = "/"})
                          + Cardinality(NamesAfterSelections(pathStr, p + 1, r.pos))
                 /\ VariantSelection(pathStr, r.pos) = Failure
        /\ (Len(pathStr) > 1 /\ pathStr[Len(pathStr)] = "/") => ~parsed.ok

\* A chain with a run of two variant selections between A and B, a slash
\* between B and C and two selections after C has been parsed into its prims
\* and selections.
PrimNameSeparatorsWitness ==
    /\ HasParsed
    /\ pathStr = ExVariantsRun
    /\ parsed.ok
    /\ PrimElts(pathStr, 2) = Matched(Len(pathStr) + 1)
    /\ parsed.path = <<RootElt, PrimElt(<<"A">>), VariantElt(<<"v">>, <<"a">>),
                       VariantElt(<<"w">>, <<"b">>), PrimElt(<<"B">>), PrimElt(<<"C">>),
                       VariantElt(<<"x">>, <<"c">>), VariantElt(<<"y">>, <<>>)>>

\* s is one property element in full: PropElts matches all of it.
IsPropertyElement(s) == PropElts(s, 1) = Matched(Len(s) + 1)

\* C24: of an input that starts with "/." the Path production consumes just
\* the "/", so it is not accepted in full, while what follows the "/", when it
\* is a property element, is accepted on its own and after "../"; and in every
\* accepted absolute path with further elements the first of them is a prim.
RootThenPrimFirst ==
    HasParsed =>
        /\ (Len(pathStr) >= 2 /\ pathStr[1] = "/" /\ pathStr[2] = ".") =>
             /\ parsed.match = Matched(2)
             /\ ~parsed.ok
             /\ \A s \in {Tail(pathStr)} :
                  IsPropertyElement(s) =>
                    /\ ParsePathResult(s).ok
                    /\ ParsePathResult(<<".", ".", "/">> \o s).ok
                    /\ ParsePathResult(<<".", ".", "/">> \o s).path
                         = <<ParentElt>> \o ParsePathResult(s).path
        /\ (parsed.ok /\ pathStr[1] = "/" /\ Len(parsed.path) >= 2) =>
             /\ parsed.path[1] = RootElt
             /\ parsed.path[2][1] = "prim"

\* "/.attr" has been parsed: the match ends behind the "/", though ".attr" and
\* "../.attr" are accepted.
RootThenPrimFirstWitness ==
    /\ HasParsed
    /\ pathStr = ExRootDotAttr
    /\ parsed.match = Matched(2)
    /\ ~parsed.ok
    /\ IsPropertyElement(ExDotAttr)
    /\ ParsePathResult(ExDotAttr).ok
    /\ ParsePathResult(ExParentDotAttr).path = <<ParentElt, PropElt(Tail(ExDotAttr))>>

\* The mapper sequence with no argument takes the `.expression` behind it as
\* its argument: the two are one mapper sequence.
IsMapperWithArgument(ss) ==
    Len(ss) >= 2 /\ ss[1] = SfxMapper /\ ss[2] = SfxExpression

\* Of a mapper sequence or expression marker behind a mapper sequence with no
\* argument, the `.` and the word are read as that argument.
ArgumentLen(ss) ==
    IF ss[1] = SfxMapper /\ ss[2] \in {SfxMapper, SfxMapperArg}
    THEN 1 + Len(KwMapper)
    ELSE 0

\* C25: after `.r[/t].a` nothing or one suffix (a bracketed target path, a
\* mapper sequence with or without argument, `.expression`) is accepted in
\* full; with a further suffix behind it the match ends behind the first one
\* (behind the argument, where a mapper sequence had none) and the input is
\* not accepted; a `.` that neither keyword follows is a hard error; and so is
\* a `.` behind the target path that no relational attribute name follows.
OneSuffixAfterRelAttr ==
    HasParsed =>
        /\ \A ss \in SuffixSeqs :
             pathStr = RelPrefix \o Flatten(ss) =>
               IF Len(ss) <= 1 \/ (Len(ss) = 2 /\ IsMapperWithArgument(ss))
               THEN parsed.ok /\ AcceptedInFull
               ELSE /\ ~parsed.ok
                    /\ parsed.match =
                         Matched(Len(RelPrefix) + 1
                                 + (IF IsMapperWithArgument(ss)
                                    THEN Len(ss[1]) + Len(ss[2])
                                    ELSE Len(ss[1]) + ArgumentLen(ss)))
        /\ (\E j \in DotJunk : pathStr = RelTarget \o j) => parsed.match = GlobalError
        /\ (/\ Len(pathStr) >= Len(RelPrefix) + 2
            /\ SubSeq(pathStr, 1, Len(RelPrefix) + 2) = RelPrefix \o <<".", "x">>)
             => parsed.match = GlobalError

\* `.r[/t].a[/u].expression` has been parsed: the match ends behind `[/u]`.
OneSuffixAfterRelAttrWitness ==
    /\ HasParsed
    /\ pathStr = RelPrefix \o SfxTarget \o SfxExpression
    /\ ~parsed.ok
    /\ parsed.match = Matched(Len(RelPrefix \o SfxTarget) + 1)
    /\ ParsePathResult(RelPrefix \o SfxTarget).ok
    /\ ParsePathResult(RelPrefix \o SfxExpression).ok

\* The first cursor from `from` on at which the byte c stands; 0 if none.
FirstAt(in, from, c) ==
    IF \E i \in from..Len(in) : in[i] = c
    THEN CHOOSE i \in from..Len(in) : in[i] = c /\ \A k \in from..(i - 1) : in[k] # c
    ELSE 0

\* The first cursor from p on at which no blank stands.
SkipBlanks(in, p) ==
    CHOOSE q \in p..(Len(in) + 1) :
        /\ \A k \in p..(q - 1) : in[k] = " "
        /\ q = Len(in) + 1 \/ in[q] # " "

\* s without the blanks at its two ends.
TrimBlanks(s) ==
    IF \A i \in 1..Len(s) : s[i] = " " THEN <<>>
    ELSE SubSeq(s, CHOOSE b \in 1..Len(s) : s[b] # " " /\ \A k \in 1..(b - 1) : s[k] = " ",
                   CHOOSE e \in 1..Len(s) : s[e] # " " /\ \A k \in (e + 1)..Len(s) : s[k] = " ")

\* Where a well-formed variant selection that opens at the "{" at cursor i
\* ends, blanks behind its "}" included; 0 when what stands between the braces
\* is no variant set name, "=", variant name with blanks only around them.
SelectionEnd(in, i) ==
    LET eq == FirstAt(in, i + 1, "=")
        close == IF eq = 0 THEN 0 ELSE FirstAt(in, eq + 1, "}")
    IN  IF /\ eq # 0
           /\ close # 0
           /\ IsVariantSetName(TrimBlanks(SubSeq(in, i + 1, eq - 1)))
           /\ IsVariantName(TrimBlanks(SubSeq(in, eq + 1, close - 1)))
        THEN SkipBlanks(in, close + 1)
        ELSE 0

\* C26: where a "{" follows the prim name (blanks may stand before it), the
\* variant selection matches up to the end of the well-formed selection when
\* what is between the braces is a variant set name, "=" and a variant name
\* that may be empty, with blanks only next to "{", "=" and "}"; with anything
\* else the selection is a hard error, and so is the whole parse.
VariantSelectionContent ==
    (HasParsed /\ Len(pathStr) >= 3 /\ SubSeq(pathStr, 1, 2) = <<"/", "A">>
        /\ ByteAt(pathStr, SkipBlanks(pathStr, 3)) = "{") =>
        \A open \in {SkipBlanks(pathStr, 3)} :
            IF SelectionEnd(pathStr, open) # 0
            THEN /\ VariantSelection(pathStr, 3) = Matched(SelectionEnd(pathStr, open))
                 /\ parsed.match # GlobalError
                      \/ \E q \in (open + 1)..Len(pathStr) : pathStr[q] = "{"
            ELSE /\ VariantSelection(pathStr, 3) = GlobalError
                 /\ parsed.match = GlobalError
                 /\ ~parsed.ok

\* "/A {v-9 =.v|-}" has been parsed to the selection of ".v|-" in "v-9", and
\* "/A{v=a b}" is a hard error.
VariantSelectionContentWitness ==
    /\ HasParsed
    /\ pathStr = ExVariantHyphenPipe
    /\ parsed.ok
    /\ parsed.path = <<RootElt, PrimElt(<<"A">>),
                       VariantElt(<<"v", "-", "9">>, <<".", "v", "|", "-">>)>>
    /\ ParsePathResult(ExVariantInnerBlank).match = GlobalError

(***************************************************************************)
(* The descents of one Path production into nested paths: the cursors of   *)
(* the "[" at which a BracketPath is entered, and so Path is called anew.  *)
(***************************************************************************)
\* MapperPathSeq tried at t: BracketPath<MapperPath> behind seq<Dot, MapperKW>.
MapperBrackets(in, t) ==
    The({IF IsMatch(x) /\ ByteAt(in, x.pos) = "[" THEN {x.pos} ELSE {}
         : x \in {PegSeq(Dot(in, t), [q \in Cursors(in) |-> MapperKW(in, q)])}})

\* The suffix of RelAttrSeq tried at t: BracketPath<TargetPath>, else MapperPathSeq.
RelAttrSuffixBrackets(in, t) ==
    IF ByteAt(in, t) = "[" THEN {t} ELSE MapperBrackets(in, t)

\* opt<RelAttrSeq> tried at s.
RelAttrSeqBrackets(in, s) ==
    The({IF IsMatch(x) THEN RelAttrSuffixBrackets(in, x.pos) ELSE {}
         : x \in {PegSeq(One(in, s, {"."}),
                         [q \in Cursors(in) |-> RelationalAttributeName(in, q)])}})

\* The suffix of PropElts tried at r: TargetPathSeq, else MapperPathSeq.
PropSuffixBrackets(in, r) ==
    IF ByteAt(in, r) = "["
    THEN {r} \cup The({IF IsMatch(x) THEN RelAttrSeqBrackets(in, x.pos) ELSE {}
                       : x \in {BracketPath(in, r)}})
    ELSE MapperBrackets(in, r)

PropEltsBrackets(in, q) ==
    The({IF IsMatch(x) THEN PropSuffixBrackets(in, x.pos) ELSE {}
         : x \in {PegSeq(One(in, q, {"."}), [r \in Cursors(in) |-> PropertyName(in, r)])}})

PathEltsBrackets(in, p) ==
    The({IF IsMatch(x) THEN PropEltsBrackets(in, x.pos)
         ELSE IF x = Failure THEN PropEltsBrackets(in, p)
         ELSE {}
         : x \in {PrimElts(in, p)}})

\* Path tried at p, alternative by alternative as the sor takes them.
PathBrackets(in, p) ==
    IF IsMatch(AbsoluteRoot(in, p))
    THEN The({IF IsMatch(x) THEN PropEltsBrackets(in, x.pos) ELSE {}
              : x \in {PrimElts(in, p + 1)}})
    ELSE The({IF IsMatch(x)
              THEN (IF IsMatch(Slash(in, x.pos)) THEN PathEltsBrackets(in, x.pos + 1) ELSE {})
              ELSE PathEltsBrackets(in, p)
              : x \in {DotDots(in, p)}})

\* How deep the paths nest under the Path tried at p.
RECURSIVE NestingDepth(_, _)
NestingDepth(in, p) ==
    The({IF bs = {} THEN 0
         ELSE 1 + (CHOOSE d \in {NestingDepth(in, b + 1) : b \in bs} :
                       \A b \in bs : NestingDepth(in, b + 1) <= d)
         : bs \in {PathBrackets(in, p)}})

\* What the repetitions of the grammar repeat, tried at q: an identifier
\* continuation, the same of variant set names and of variant names, a variant
\* selection, a separator with its prim name, a slash with its dot-dot, a
\* colon with its identifier, a blank, a character of a mapper argument.
RepeatedRules(in, q) ==
    <<XidContinue(in, q),
      PegSor(XidContinue(in, q), One(in, q, {"-"})),
      PegSor(XidContinue(in, q), One(in, q, {"|", "-"})),
      VariantSelection(in, q),
      PegSeq(PrimSep(in, q), [r \in Cursors(in) |-> PrimName(in, r)]),
      PegSeq(Slash(in, q), [r \in Cursors(in) |-> DotDot(in, r)]),
      PegSeq(One(in, q, {":"}), [r \in Cursors(in) |-> Utf8Identifier(in, r)]),
      One(in, q, {" ", "\t"}),
      One(in, q, IdentifierOther)>>

NumberOf(in, c) == Cardinality({i \in 1..Len(in) : in[i] = c})

\* C27: at every cursor of every input each repeated rule, when it matches,
\* consumes at least one byte and ends within the input, so no repetition goes
\* round without moving on; a path descends into a nested path only at a "["
\* it has consumed, with the nested path starting behind it; and the paths
\* nest no deeper than the input has "[".
ParseTerminates ==
    HasParsed =>
        /\ \A q \in Cursors(pathStr) :
             \A rules \in {RepeatedRules(pathStr, q)} :
               \A i \in 1..Len(rules) :
                 IsMatch(rules[i]) => (rules[i].pos > q /\ rules[i].pos <= Len(pathStr) + 1)
        /\ \A p \in Cursors(pathStr) :
             \A b \in PathBrackets(pathStr, p) :
               b >= p /\ pathStr[b] = "[" /\ b + 1 \in Cursors(pathStr)
        /\ NestingDepth(pathStr, 1) <= NumberOf(pathStr, "[")
        /\ parsed.match.st \in {"match", "fail", "error"}

\* A path with a target path inside a target path, and a third one next to
\* them, has been parsed: three "[", two levels of nesting.
ParseTerminatesWitness ==
    /\ HasParsed
    /\ pathStr = ExNestedTargets
    /\ parsed.ok
    /\ NumberOf(pathStr, "[") = 3
    /\ NestingDepth(pathStr, 1) = 2
    /\ PathBrackets(pathStr, 1) = {5, 19}
    /\ PathBrackets(pathStr, 6) = {10}

\* The spans that start at cursor b and are handed to GetToken: what PrimName,
\* a component of PropertyName, VariantSetName or VariantName matches there.
TokenSpans(in, b) ==
    {Span(in, b, r.pos) : r \in {x \in {Utf8Identifier(in, b), VariantSetName(in, b),
                                        VariantName(in, b)} : IsMatch(x)}}

\* C28: a matched span of up to BufSz - 1 bytes is copied into buf with the
\* '\0' behind it, which stays within the BufSz elements of buf; a span of
\* BufSz bytes or more writes nothing to buf; and either way the token is the
\* text of the span, which holds no '\0'.
GetTokenWithinBuffer ==
    HasParsed =>
        \A b \in Cursors(pathStr) : \A span \in TokenSpans(pathStr, b) :
            /\ GetTokenWrites(span) \subseteq 0..(BufSz - 1)
            /\ Len(span) <= BufSz - 1 => GetTokenWrites(span) = 0..Len(span)
            /\ Len(span) >= BufSz => GetTokenWrites(span) = {}
            /\ \A i \in 1..Len(span) : span[i] # NulByte
            /\ GetToken(span) = span

\* The identifier of exactly BufSz bytes has been parsed to the prim of that
\* name without a write to buf, and the one a byte shorter fills buf to its
\* last element.
GetTokenWithinBufferWitness ==
    /\ HasParsed
    /\ pathStr = ExIdentifierOfBufSz
    /\ parsed.ok
    /\ parsed.path = <<RootElt, PrimElt(Tail(ExIdentifierOfBufSz))>>
    /\ GetTokenWrites(Tail(ExIdentifierOfBufSz)) = {}
    /\ GetTokenWrites(Tail(ExIdentifierBelowBufSz)) = 0..(BufSz - 1)
    /\ ParsePathResult(ExIdentifierBelowBufSz).path
         = <<RootElt, PrimElt(Tail(ExIdentifierBelowBufSz))>>

\* C29: an Eval that used no cache entry, on a spline that has knots but whose
\* own evaluation at that time fails, returns TsTraits<T>::zero, the value an
\* evaluator of an empty spline returns.
FailedDirectEvalIsZero ==
    \A t \in Threads :
        (/\ Returned(t)
         /\ calls[t].read = -1
         /\ ~IsEmpty(_spline)
         /\ ~SplineEval(_spline, calls[t].time).ok)
        => /\ calls[t].result = TsTraitsZero
           /\ calls[t].result = DirectEval(<<>>, calls[t].time)

\* A left-side Eval inside the value-blocked first segment of a cached spline
\* has returned zero.
FailedDirectEvalWitness ==
    \E t \in Threads :
        /\ Returned(t)
        /\ AllCachesCreated
        /\ _spline[1].nextInterp = TsInterpValueBlock
        /\ InGap(1, calls[t].time)
        /\ calls[t].side = TsSideLeft
        /\ calls[t].read = -1
        /\ ~SplineEval(_spline, calls[t].time).ok
        /\ calls[t].result = TsTraitsZero

(***************************************************************************)
(* Properties of the discovery plugin                                      *)
(***************************************************************************)
\* The root prims of the stage that are valid shaders.
ValidShaders == {i \in 1..Len(stage.rootPrims) : stage.rootPrims[i].isShader}

\* C30: what DiscoverShaderNodes returns. With no definitions file or no stage
\* it is empty. Otherwise it holds results of valid shaders only, each result
\* of each valid shader, root prim by root prim in their order and result by
\* result within one prim; and the runtime errors raised are one for each
\* valid shader that has no results, whatever the other prims are.
DiscoveredInRootPrimOrder ==
    dpc = "done" =>
        /\ (shaderDefsFile = "" \/ ~stage.open) => resultVec = <<>>
        /\ shaderDefsFile = "" => stage = NoStage
        /\ ~stage.open => (shaderDefsFile = "" \/ CouldNotOpen \in {errors[k] : k \in 1..Len(errors)})
        /\ (shaderDefsFile # "" /\ stage.open) =>
            /\ \A k \in 1..Len(resultVec) :
                 /\ resultVec[k].shaderDef \in ValidShaders
                 /\ resultVec[k].n \in 1..stage.rootPrims[resultVec[k].shaderDef].nResults
                 /\ resultVec[k].uri = shaderDefsFile
            /\ \A i \in ValidShaders : \A n \in 1..stage.rootPrims[i].nResults :
                 \E k \in 1..Len(resultVec) :
                     resultVec[k].shaderDef = i /\ resultVec[k].n = n
            /\ \A k, l \in 1..Len(resultVec) :
                 k < l => \/ resultVec[k].shaderDef < resultVec[l].shaderDef
                          \/ /\ resultVec[k].shaderDef = resultVec[l].shaderDef
                             /\ resultVec[k].n < resultVec[l].n
            /\ {errors[k].shaderDef : k \in 1..Len(errors)}
                 = {i \in ValidShaders : stage.rootPrims[i].nResults = 0}
            /\ Len(errors) = Cardinality({i \in ValidShaders : stage.rootPrims[i].nResults = 0})

\* A stage of three root prims has been gone through: a shader with a result,
\* a shader with none, a shader with a result. Both results are returned, the
\* first prim's before the third's, and one error was raised in between.
DiscoveredWitness ==
    /\ dpc = "done"
    /\ stage.open
    /\ stage.rootPrims = <<[isShader |-> TRUE, nResults |-> 1],
                           [isShader |-> TRUE, nResults |-> 0],
                           [isShader |-> TRUE, nResults |-> 1]>>
    /\ resultVec = <<[shaderDef |-> 1, n |-> 1, uri |-> ShaderDefsPath],
                     [shaderDef |-> 3, n |-> 1, uri |-> ShaderDefsPath]>>
    /\ errors = <<NoDiscoveryResults(2)>>

====
